---- MODULE Spec2Model ----
(***************************************************************************)
(* Model of the ordinal axis engine of src/ts/Core/Axis/OrdinalAxis.ts:    *)
(* the binary search findIndexOf, the translators val2lin, lin2val and     *)
(* index2val, the position set builder beforeSetTickPositions and the      *)
(* extended position cache getExtendedPositions.                           *)
(*                                                                         *)
(* JavaScript numbers are modelled as exact fractions <<n, d>>:            *)
(*   d > 0   the finite number n/d in lowest terms,                        *)
(*   d = 0   NaN (n = 0), Infinity (n = 1), -Infinity (n = -1),            *)
(*   d = -1  the value undefined.                                          *)
(* Floating point rounding (correctFloat) is not modelled: arithmetic is   *)
(* exact.                                                                  *)
(***************************************************************************)
EXTENDS Integers, Sequences, FiniteSets, TLC

VARIABLES
    series,   \* axis.series: the series attached to the x axis
    axis,     \* the axis fields the engine reads and writes
    ordinal,  \* axis.ordinal: the Additions instance
    call      \* the last call made to the engine, with its result

vars == <<series, axis, ordinal, call>>

----------------------------------------------------------------------------
(* JavaScript numbers                                                      *)

Abs(i) == IF i < 0 THEN -i ELSE i

Sgn(i) == IF i < 0 THEN -1 ELSE IF i > 0 THEN 1 ELSE 0

RECURSIVE GCD(_, _)
GCD(a, b) == IF b = 0 THEN a ELSE GCD(b, a % b)

Norm(n, d) ==
    IF d = 0 THEN <<Sgn(n), 0>>
    ELSE LET g == GCD(Abs(n), Abs(d))
             s == IF d < 0 THEN -1 ELSE 1
         IN  <<(s * n) \div g, (s * d) \div g>>

N(i) == <<i, 1>>

NaN == <<0, 0>>

Infinity == <<1, 0>>

Undefined == <<0, -1>>

\* undefined converts to NaN in arithmetic
ToNumber(a) == IF a[2] = -1 THEN NaN ELSE a

IsNaN(a) == ToNumber(a) = NaN

IsFinite(a) == a[2] > 0

Add(a, b) ==
    LET x == ToNumber(a)
        y == ToNumber(b)
    IN  IF x = NaN \/ y = NaN THEN NaN
        ELSE IF x[2] = 0 /\ y[2] = 0 THEN (IF x = y THEN x ELSE NaN)
        ELSE Norm(x[1] * y[2] + y[1] * x[2], x[2] * y[2])

Neg(a) == LET x == ToNumber(a) IN <<-x[1], x[2]>>

Sub(a, b) == Add(a, Neg(b))

Mul(a, b) ==
    LET x == ToNumber(a)
        y == ToNumber(b)
    IN  Norm(x[1] * y[1], x[2] * y[2])

Div(a, b) ==
    LET y == ToNumber(b)
    IN  Mul(a, Norm(y[2], y[1]))

Lt(a, b) ==
    LET x == ToNumber(a)
        y == ToNumber(b)
    IN  /\ x # NaN
        /\ y # NaN
        /\ IF x[2] = 0 /\ y[2] = 0 THEN x[1] < y[1]
           ELSE x[1] * y[2] < y[1] * x[2]

Le(a, b) == ~IsNaN(a) /\ ~IsNaN(b) /\ (ToNumber(a) = ToNumber(b) \/ Lt(a, b))

Gt(a, b) == Lt(b, a)

Ge(a, b) == Le(b, a)

\* a === b
StrictEq(a, b) == a = b /\ a # NaN

\* a used as a condition: 0, NaN and undefined are falsy
Truthy(a) == ~IsNaN(a) /\ a[1] # 0

Defined(a) == a # Undefined

Pick(a, b) == IF Defined(a) THEN a ELSE b

MathMax(a, b) == IF IsNaN(a) \/ IsNaN(b) THEN NaN ELSE IF Lt(a, b) THEN b ELSE a

MathMin(a, b) == IF IsNaN(a) \/ IsNaN(b) THEN NaN ELSE IF Lt(b, a) THEN b ELSE a

MathFloor(a) == IF IsFinite(a) THEN N(a[1] \div a[2]) ELSE ToNumber(a)

MathCeil(a) == IF IsFinite(a) THEN N(-((-a[1]) \div a[2])) ELSE ToNumber(a)

\* arr[i] with a zero-based integer index; undefined outside the array
At(arr, i) == IF i >= 0 /\ i < Len(arr) THEN arr[i + 1] ELSE Undefined

\* arr[x] with a number as index: only an integer inside the array hits
AtNum(arr, x) == IF IsFinite(x) /\ x[2] = 1 THEN At(arr, x[1]) ELSE Undefined

----------------------------------------------------------------------------
(* Additions.findIndexOf                                                   *)

\* The loop with `<` where the code has `<=`: a found key sends the search left.
RECURSIVE findIndexOfLoopStrict(_, _, _, _)
findIndexOfLoopStrict(sortedArray, key, start, end) ==
    IF start < end
    THEN LET middle == (start + end + 1) \div 2
         IN  IF Lt(At(sortedArray, middle), key)
             THEN findIndexOfLoopStrict(sortedArray, key, middle, end)
             ELSE findIndexOfLoopStrict(sortedArray, key, start, middle - 1)
    ELSE start

RECURSIVE findIndexOfLoop(_, _, _, _)
findIndexOfLoop(sortedArray, key, start, end) ==
    IF start < end
    THEN LET middle == (start + end + 1) \div 2   \* Math.ceil((start+end)/2)
         IN  IF Le(At(sortedArray, middle), key)
             THEN findIndexOfLoop(sortedArray, key, middle, end)
             ELSE findIndexOfLoop(sortedArray, key, start, middle - 1)
    ELSE start

\* findIndexOf that answers an absent key with the index before the floor.
findIndexOfOffByOne(sortedArray, key, indirectSearch) ==
    LET start == findIndexOfLoop(sortedArray, key, 0, Len(sortedArray) - 1)
    IN  IF StrictEq(At(sortedArray, start), key) THEN start
        ELSE IF ~indirectSearch THEN -1 ELSE start - 1

findIndexOf(sortedArray, key, indirectSearch) ==
    LET start == findIndexOfLoop(sortedArray, key, 0, Len(sortedArray) - 1)
    IN  IF StrictEq(At(sortedArray, start), key) THEN start
        ELSE IF ~indirectSearch THEN -1 ELSE start

----------------------------------------------------------------------------
(* Optional arrays: an array, or undefined                                 *)

Some(arr) == [def |-> TRUE, val |-> arr]

None == [def |-> FALSE, val |-> <<>>]

\* `positions && positions.length`
NonEmpty(opt) == opt.def /\ Len(opt.val) > 0

Last(arr) == At(arr, Len(arr) - 1)

----------------------------------------------------------------------------
(* The translators: getIndexInArray, val2lin, index2val                    *)

\* getIndexInArray without the share of the way to the next position.
getIndexInArrayNoPercent(ordinalPositions, val) ==
    N(findIndexOf(ordinalPositions, val, TRUE))

getIndexInArray(ordinalPositions, val) ==
    LET index == findIndexOf(ordinalPositions, val, TRUE)
        percent == Div(Sub(val, At(ordinalPositions, index)),
                       Sub(At(ordinalPositions, index + 1),
                           At(ordinalPositions, index)))
    IN  IF StrictEq(At(ordinalPositions, index), val) THEN N(index)
        ELSE Add(N(index), percent)

\* The test of val2lin that keeps the search on the visible positions.
InsideVisible(ordinalPositions, val) ==
    /\ Le(At(ordinalPositions, 0), val)
    /\ Ge(Last(ordinalPositions), val)

\* The last statement of val2lin.
val2linReturn(ordinalIndex, slope, offset, toIndex) ==
    IF toIndex THEN ordinalIndex
    ELSE Add(Mul(slope, IF Truthy(ordinalIndex) THEN ordinalIndex ELSE N(0)),
             offset)

\* val2linExtended without `if (!toIndex) return val`: a value outside the
\* extended positions is extrapolated for toIndex false as well.
val2linExtendedAlways(ordinalPositions, ordSlope, offset, extended, val, toIndex) ==
    IF ~NonEmpty(extended) THEN val
    ELSE
      LET extendedOrdinalPositions == extended.val
          length == Len(extendedOrdinalPositions)
          first == At(extendedOrdinalPositions, 0)
          last == Last(extendedOrdinalPositions)
          slope == IF ~Truthy(ordSlope)
                   THEN Div(Sub(last, first), N(length))
                   ELSE ordSlope
          originalPositionsReference ==
              getIndexInArray(extendedOrdinalPositions, At(ordinalPositions, 0))
      IN  IF Ge(val, first) /\ Le(val, last)
          THEN val2linReturn(
                   Sub(getIndexInArray(extendedOrdinalPositions, val),
                       originalPositionsReference),
                   slope, offset, toIndex)
          ELSE IF Lt(val, first)
          THEN val2linReturn(
                   Sub(Neg(originalPositionsReference),
                       Div(Sub(first, val), slope)),
                   slope, offset, toIndex)
          ELSE val2linReturn(
                   Sub(Add(Div(Sub(val, last), slope), N(length)),
                       originalPositionsReference),
                   slope, offset, toIndex)

\* val2lin for a value outside the visible positions; extended is the result
\* of `ordinal.getExtendedPositions && ordinal.getExtendedPositions()`.
val2linExtended(ordinalPositions, ordSlope, offset, extended, val, toIndex) ==
    IF ~NonEmpty(extended) THEN val
    ELSE
      LET extendedOrdinalPositions == extended.val
          length == Len(extendedOrdinalPositions)
          first == At(extendedOrdinalPositions, 0)
          last == Last(extendedOrdinalPositions)
          slope == IF ~Truthy(ordSlope)
                   THEN Div(Sub(last, first), N(length))
                   ELSE ordSlope
          originalPositionsReference ==
              getIndexInArray(extendedOrdinalPositions, At(ordinalPositions, 0))
      IN  IF Ge(val, first) /\ Le(val, last)
          THEN val2linReturn(
                   Sub(getIndexInArray(extendedOrdinalPositions, val),
                       originalPositionsReference),
                   slope, offset, toIndex)
          ELSE IF ~toIndex THEN val
          ELSE IF Lt(val, first)
          THEN val2linReturn(
                   Sub(Neg(originalPositionsReference),
                       Div(Sub(first, val), slope)),
                   slope, offset, toIndex)
          ELSE val2linReturn(
                   Sub(Add(Div(Sub(val, last), slope), N(length)),
                       originalPositionsReference),
                   slope, offset, toIndex)

\* val2lin on an ordinal object ord = [positions, slope, offset, ...], given
\* what getExtendedPositions returns when it is asked.
val2lin(ord, extended, val, toIndex) ==
    IF ~ord.positions.def THEN val
    ELSE IF InsideVisible(ord.positions.val, val)
    THEN val2linReturn(getIndexInArray(ord.positions.val, val),
                       ord.slope, ord.offset, toIndex)
    ELSE val2linExtended(ord.positions.val, ord.slope, ord.offset,
                         extended, val, toIndex)

\* Whether val2lin reaches its call of getExtendedPositions.
val2linAsksExtended(ord, val) ==
    ord.positions.def /\ ~InsideVisible(ord.positions.val, val)

\* index2val that drops the distance to the next position.
index2valNoInterpolation(positions, index) ==
    IF ~positions.def THEN index
    ELSE
      LET ordinalPositions == positions.val
          i == Len(ordinalPositions) - 1
          fl == MathFloor(index)
      IN  IF Lt(index, N(0)) THEN At(ordinalPositions, 0)
          ELSE IF Gt(index, N(i)) THEN At(ordinalPositions, i)
          ELSE IF Defined(AtNum(ordinalPositions, fl))
          THEN AtNum(ordinalPositions, fl)
          ELSE index

\* index2val without the clamp of a negative index.
index2valNoLowClamp(positions, index) ==
    IF ~positions.def THEN index
    ELSE
      LET ordinalPositions == positions.val
          i == Len(ordinalPositions) - 1
          fl == MathFloor(index)
          distance == Sub(index, fl)
      IN  IF Gt(index, N(i)) THEN At(ordinalPositions, i)
          ELSE IF Defined(AtNum(ordinalPositions, fl))
          THEN Add(AtNum(ordinalPositions, fl),
                   IF Truthy(distance)
                   THEN Mul(distance,
                            Sub(AtNum(ordinalPositions, Add(fl, N(1))),
                                AtNum(ordinalPositions, fl)))
                   ELSE N(0))
          ELSE index

index2val(positions, index) ==
    IF ~positions.def THEN index
    ELSE
      LET ordinalPositions == positions.val
          i == Len(ordinalPositions) - 1
          fl == MathFloor(index)
          distance == Sub(index, fl)
      IN  IF Lt(index, N(0)) THEN At(ordinalPositions, 0)
          ELSE IF Gt(index, N(i)) THEN At(ordinalPositions, i)
          ELSE IF Defined(AtNum(ordinalPositions, fl))
          THEN Add(AtNum(ordinalPositions, fl),
                   IF Truthy(distance)
                   THEN Mul(distance,
                            Sub(AtNum(ordinalPositions, Add(fl, N(1))),
                                AtNum(ordinalPositions, fl)))
                   ELSE N(0))
          ELSE index

----------------------------------------------------------------------------
(* Array helpers                                                           *)

NumSeq(ints) == [k \in 1..Len(ints) |-> N(ints[k])]

RECURSIVE InsertSorted(_, _)
InsertSorted(arr, x) ==
    IF Len(arr) = 0 THEN <<x>>
    ELSE IF Lt(x, arr[1]) THEN <<x>> \o arr
    ELSE <<arr[1]>> \o InsertSorted(Tail(arr), x)

\* arr.sort((a, b) => a - b)
RECURSIVE SortNumbers(_)
SortNumbers(arr) ==
    IF Len(arr) = 0 THEN <<>>
    ELSE InsertSorted(SortNumbers(Tail(arr)), arr[1])

\* The smallest of a sequence of numbers, skipping undefined; undefined if
\* there is none.
RECURSIVE MinDefined(_)
MinDefined(arr) ==
    IF Len(arr) = 0 THEN Undefined
    ELSE LET rest == MinDefined(Tail(arr))
         IN  IF ~Defined(arr[1]) THEN rest
             ELSE IF ~Defined(rest) THEN arr[1]
             ELSE MathMin(arr[1], rest)

RECURSIVE MaxDefined(_)
MaxDefined(arr) ==
    IF Len(arr) = 0 THEN Undefined
    ELSE LET rest == MaxDefined(Tail(arr))
         IN  IF ~Defined(arr[1]) THEN rest
             ELSE IF ~Defined(rest) THEN arr[1]
             ELSE MathMax(arr[1], rest)

\* The distances between neighbours of an array.
Gaps(arr) ==
    IF Len(arr) < 2 THEN <<>>
    ELSE [k \in 1..(Len(arr) - 1) |-> Sub(arr[k + 1], arr[k])]

----------------------------------------------------------------------------
(* Overscroll: convertOverscroll and getOverscrollPositions                *)
(* The overscroll option is undefined, a number v, or a string s held as   *)
(* the sequence of its characters.                                         *)

NoOverscroll == [kind |-> "undefined", v |-> 0]

NumberOverscroll(v) == [kind |-> "number", v |-> v]

StringOverscroll(s) == [kind |-> "string", s |-> s]

\* `axis.options.overscroll` used as a condition
OverscrollSet(overscroll) ==
    CASE overscroll.kind = "undefined" -> FALSE
      [] overscroll.kind = "number" -> overscroll.v # 0
      [] OTHER -> Len(overscroll.s) > 0

DigitChars == <<"0", "1", "2", "3", "4", "5", "6", "7", "8", "9">>

IsDigit(c) == \E d \in 1..10 : DigitChars[d] = c

DigitValue(c) == (CHOOSE d \in 1..10 : DigitChars[d] = c) - 1

\* The number of digits s starts with.
RECURSIVE leadingDigits(_)
leadingDigits(s) ==
    IF Len(s) > 0 /\ IsDigit(s[1]) THEN 1 + leadingDigits(Tail(s)) ELSE 0

\* The value of a sequence of digits.
RECURSIVE digitsValue(_, _)
digitsValue(s, acc) ==
    IF Len(s) = 0 THEN acc
    ELSE digitsValue(Tail(s), 10 * acc + DigitValue(s[1]))

RECURSIVE skipSpaces(_)
skipSpaces(s) ==
    IF Len(s) > 0 /\ s[1] = " " THEN skipSpaces(Tail(s)) ELSE s

\* parseInt(s, 10): leading spaces, a sign, then digits up to the first
\* character that is none; NaN without a digit.
parseInt(s) ==
    LET t == skipSpaces(s)
        signed == Len(t) > 0 /\ t[1] \in {"-", "+"}
        body == IF signed THEN Tail(t) ELSE t
        n == leadingDigits(body)
        value == digitsValue(SubSeq(body, 1, n), 0)
    IN  IF n = 0 THEN NaN
        ELSE IF signed /\ t[1] = "-" THEN N(-value)
        ELSE N(value)

\* /%$/.test(s)
endsWithPercent(s) == Len(s) > 0 /\ s[Len(s)] = "%"

\* /px/.test(s)
containsPx(s) == \E i \in 1..(Len(s) - 1) : s[i] = "p" /\ s[i + 1] = "x"

calculateOverscroll(ax, ord, overscrollPercentage) ==
    Mul(Pick(ord.originalOrdinalRange,
             IF Defined(ax.dataMax) /\ Defined(ax.dataMin)
             THEN Sub(ax.dataMax, ax.dataMin)
             ELSE N(0)),
        overscrollPercentage)

\* The branch `if (isString(overscroll))` of convertOverscroll.
convertOverscrollString(ax, ord, s) ==
    LET overscrollValue == parseInt(s)
        limitedOverscrollValue ==
            MathMin(overscrollValue, Mul(ax.len, Norm(9, 10)))
        pixelToPercent == Div(limitedOverscrollValue, ax.len)
    IN  IF endsWithPercent(s)
        THEN calculateOverscroll(ax, ord, Div(overscrollValue, N(100)))
        ELSE IF containsPx(s)
        THEN calculateOverscroll(ax, ord,
                 Div(pixelToPercent, Sub(N(1), pixelToPercent)))
        ELSE N(0)

convertOverscroll(ax, ord, overscroll) ==
    CASE overscroll.kind = "undefined" -> N(0)
      [] overscroll.kind = "number" -> N(overscroll.v)
      [] OTHER -> convertOverscrollString(ax, ord, overscroll.s)

\* The number of times a distance can be added to a number before the
\* floating-point sum stops growing; it stands for 2^53 on the scale
\* NumberMaxValue stands for Number.MAX_VALUE on.
MaxSafeSteps == 100

\* The while loop of getOverscrollPositions never ends when it is entered
\* and the distance is not positive, or so small against the overscroll
\* that `max += distance` stops changing max before the limit is passed.
overscrollLoopDivergesFor(dataMax, extraRange, distance) ==
    /\ Defined(distance)
    /\ Le(dataMax, Add(dataMax, extraRange))
    /\ \/ Le(distance, N(0))
       \/ Gt(extraRange, Mul(distance, N(MaxSafeSteps)))

\* The same for a call of getOverscrollPositions on axis ax.
overscrollLoopDiverges(ax, ord) ==
    overscrollLoopDivergesFor(
        ax.dataMax, convertOverscroll(ax, ord, ax.options.overscroll),
        ord.overscrollPointsRange)

\* A loop that ends as soon as max has reached the limit.
RECURSIVE overscrollLoopUpTo(_, _, _, _)
overscrollLoopUpTo(max, limit, distance, positions) ==
    IF Lt(max, limit) \/ positions = <<>>
    THEN overscrollLoopUpTo(Add(max, distance), limit, distance,
                            Append(positions, Add(max, distance)))
    ELSE positions

RECURSIVE overscrollLoop(_, _, _, _)
overscrollLoop(max, limit, distance, positions) ==
    IF Le(max, limit)
    THEN overscrollLoop(Add(max, distance), limit, distance,
                        Append(positions, Add(max, distance)))
    ELSE positions

\* The body of getOverscrollPositions once extraRange and distance are
\* known; a loop that does not end gives no positions.
overscrollPositionsFor(dataMax, extraRange, distance) ==
    IF /\ Defined(distance)
       /\ ~overscrollLoopDivergesFor(dataMax, extraRange, distance)
    THEN overscrollLoop(dataMax, Add(dataMax, extraRange), distance, <<>>)
    ELSE <<>>

getOverscrollPositions(ax, ord) ==
    overscrollPositionsFor(
        ax.dataMax, convertOverscroll(ax, ord, ax.options.overscroll),
        ord.overscrollPointsRange)

----------------------------------------------------------------------------
(* The position set builder: Additions.beforeSetTickPositions              *)
(*                                                                         *)
(* It runs on an axis ax = [series, min, max, dataMin, dataMax, len,       *)
(* hasBreaks, forceOrdinal, closestPointRange, options] and its ordinal    *)
(* object ord = [positions, slope, offset, overscrollPointsRange,          *)
(* originalOrdinalRange, index]; a series of ax is [processedXData,        *)
(* reserveSpace, takeOrdinalPosition, boosted, navigator,                  *)
(* closestPointRange].                                                     *)

\* The "Remove duplicates" block, run on the sorted array.
RECURSIVE differingNeighbours(_, _)
differingNeighbours(ordinalPositions, i) ==
    IF i < Len(ordinalPositions) - 1
    THEN (IF ~StrictEq(At(ordinalPositions, i), At(ordinalPositions, i + 1))
          THEN <<At(ordinalPositions, i + 1)>>
          ELSE <<>>) \o differingNeighbours(ordinalPositions, i + 1)
    ELSE <<>>

removeDuplicates(ordinalPositions) ==
    LET uniqueOrdinalPositions == differingNeighbours(ordinalPositions, 0)
    IN  IF ~StrictEq(At(uniqueOrdinalPositions, 0), At(ordinalPositions, 0))
        THEN <<At(ordinalPositions, 0)>> \o uniqueOrdinalPositions
        ELSE uniqueOrdinalPositions

\* Number.MAX_VALUE, as a number larger than any the model computes.
NumberMaxValue == 10000

\* The state of the locals of beforeSetTickPositions before the first series.
mergeStart ==
    [ordinalPositions |-> <<>>,
     overscrollPointsRange |-> N(NumberMaxValue),
     adjustOrdinalExtremesPoints |-> FALSE,
     distanceBetweenPoint |-> N(0),
     isBoosted |-> FALSE]

\* One run of the callback of axis.series.forEach, on series s at index i.
mergeSeries(acc, s, i, hasBreaks) ==
    LET pxd == s.processedXData
        distance == Sub(At(pxd, 1), At(pxd, 0))
        takes == s.reserveSpace /\ (s.takeOrdinalPosition \/ hasBreaks)
        sorted == SortNumbers(acc.ordinalPositions \o pxd)
    IN  [ordinalPositions |->
             IF ~takes THEN acc.ordinalPositions
             ELSE IF Len(sorted) > 0 THEN removeDuplicates(sorted)
             ELSE sorted,
         overscrollPointsRange |->
             IF takes
             THEN MathMin(acc.overscrollPointsRange,
                          Pick(s.closestPointRange, acc.overscrollPointsRange))
             ELSE acc.overscrollPointsRange,
         adjustOrdinalExtremesPoints |->
             IF i > 0 /\ ~s.navigator /\ Len(pxd) > 1
             THEN ~StrictEq(acc.distanceBetweenPoint, distance)
             ELSE acc.adjustOrdinalExtremesPoints,
         distanceBetweenPoint |-> distance,
         isBoosted |-> acc.isBoosted \/ s.boosted]

RECURSIVE mergeAll(_, _, _)
mergeAll(allSeries, n, hasBreaks) ==
    IF n = 0 THEN mergeStart
    ELSE mergeSeries(mergeAll(allSeries, n - 1, hasBreaks),
                     allSeries[n], n - 1, hasBreaks)

\* ordinalPositions.pop(); ordinalPositions.shift()
popShift(arr) ==
    IF Len(arr) < 2 THEN <<>> ELSE SubSeq(arr, 2, Len(arr) - 1)

\* The decision without the look at the distance from the extremes.
needsOrdinalGapsOnly(ordinalPositions, min, max, keepOrdinalPadding) ==
    LET len == Len(ordinalPositions)
        dist == Sub(At(ordinalPositions, 1), At(ordinalPositions, 0))
    IN  /\ len > 2
        /\ \E i \in 0..(len - 2) :
               ~StrictEq(Sub(At(ordinalPositions, i + 1),
                             At(ordinalPositions, i)), dist)

\* The decision "do we need the ordinal logic" on the merged positions.
needsOrdinal(ordinalPositions, min, max, keepOrdinalPadding) ==
    LET len == Len(ordinalPositions)
        dist == Sub(At(ordinalPositions, 1), At(ordinalPositions, 0))
    IN  /\ len > 2
        /\ \/ \E i \in 0..(len - 2) :
                  ~StrictEq(Sub(At(ordinalPositions, i + 1),
                                At(ordinalPositions, i)), dist)
           \/ /\ ~keepOrdinalPadding
              /\ \/ Gt(Sub(At(ordinalPositions, 0), min), dist)
                 \/ Gt(Sub(max, Last(ordinalPositions)), dist)

\* The slope and offset from the extremes and their indices.
slopeOf(min, max, minIndex, maxIndex) ==
    Div(Sub(max, min), Sub(maxIndex, minIndex))

\* The offset without the slope applied to the index of min.
offsetOfNoSlope(min, minIndex, slope) == Sub(min, minIndex)

offsetOf(min, minIndex, slope) == Sub(min, Mul(minIndex, slope))

\* The registration of the positions, or the else branch that clears them:
\* the ordinal object afterwards, the local useOrdinal and whether positions
\* were registered.
registerWithRange(ax, ord1, pos1, useOrdinal, overscrollPointsRange) ==
    LET overscrollSet == OverscrollSet(ax.options.overscroll)
        pos2 == IF Len(pos1) = 1 /\ overscrollSet
                THEN <<pos1[1], Add(pos1[1], overscrollPointsRange)>>
                ELSE pos1
        ord2 == IF overscrollSet
                THEN [ord1 EXCEPT !.overscrollPointsRange =
                                      overscrollPointsRange]
                ELSE ord1
    IN  IF useOrdinal \/ ax.forceOrdinal
        THEN [ord |-> [ord2 EXCEPT
                          !.positions =
                              Some(IF overscrollSet
                                   THEN pos2 \o getOverscrollPositions(ax, ord2)
                                   ELSE pos2),
                          !.hung = @ \/ (/\ overscrollSet
                                         /\ overscrollLoopDiverges(ax, ord2))],
              useOrdinal |-> useOrdinal,
              registered |-> TRUE]
        ELSE [ord |-> [ord1 EXCEPT
                          !.overscrollPointsRange =
                              Pick(ax.closestPointRange,
                                   ord1.overscrollPointsRange),
                          !.positions = None,
                          !.slope = Undefined,
                          !.offset = Undefined],
              useOrdinal |-> useOrdinal,
              registered |-> FALSE]

\* The local overscrollPointsRange after the branches on the number of
\* positions.
overscrollRangeOf(ax, ord1, pos1, mergedRange) ==
    IF Len(pos1) > 2 \/ ~OverscrollSet(ax.options.overscroll) THEN mergedRange
    ELSE IF Len(pos1) = 2 THEN Sub(At(pos1, 1), At(pos1, 0))
    ELSE IF Len(pos1) = 1
    THEN convertOverscroll(ax, ord1, ax.options.overscroll)
    ELSE ord1.overscrollPointsRange

\* The decision on the merged and trimmed positions pos1, then the
\* registration.
registerMerged(ax, ord1, pos1, mergedRange) ==
    registerWithRange(ax, ord1, pos1,
                      needsOrdinal(pos1, ax.min, ax.max,
                                   ax.options.keepOrdinalPadding),
                      overscrollRangeOf(ax, ord1, pos1, mergedRange))

\* The steps after the series loop, on its result m: originalOrdinalRange,
\* the trimming for boosted series, the decision and the registration.
afterSeriesLoop(ax, ord, m) ==
    registerMerged(ax,
        IF ~Truthy(ord.originalOrdinalRange)
        THEN [ord EXCEPT !.originalOrdinalRange =
                 Mul(N(Len(m.ordinalPositions) - 1), m.overscrollPointsRange)]
        ELSE ord,
        IF m.adjustOrdinalExtremesPoints /\ m.isBoosted
        THEN popShift(m.ordinalPositions)
        ELSE m.ordinalPositions,
        m.overscrollPointsRange)

\* The body of `if (isOrdinal || hasBreaks)` up to the registration of the
\* positions, or its else branch.
registerPositions(ax, ord) ==
    afterSeriesLoop(ax, ord, mergeAll(ax.series, Len(ax.series), ax.hasBreaks))

\* The values whose indices give the slope: the extremes, kept inside the
\* registered positions.
minInside(ax, ord) == MathMax(ax.min, At(ord.positions.val, 0))

maxInside(ax, ord) == MathMin(ax.max, Last(ord.positions.val))

\* The slope and offset written from the index of min and the index
\* ordinal2lin gave for max.
recordSlope(ax, ord, minIndex, maxRet) ==
    LET maxIndex == MathMax(maxRet, N(1))
        slope == slopeOf(ax.min, ax.max, minIndex, maxIndex)
    IN  [ord EXCEPT !.slope = slope,
                    !.offset = offsetOf(ax.min, minIndex, slope)]

\* The slope and offset on the fake axis of getExtendedPositions, whose
\* ordinal object has no getExtendedPositions: ordinal2lin gets undefined
\* for the extended positions. r is what registerPositions gave.
slopeOnFake(ax, r) ==
    IF r.registered
    THEN recordSlope(ax, r.ord,
                     val2lin(r.ord, None, minInside(ax, r.ord), TRUE),
                     val2lin(r.ord, None, maxInside(ax, r.ord), TRUE))
    ELSE r.ord

\* beforeSetTickPositions applied to the fake axis of getExtendedPositions.
beforeSetTickPositionsOnFake(ax, ord) ==
    IF ax.options.ordinal \/ ax.hasBreaks
    THEN slopeOnFake(ax, registerPositions(ax, ord))
    ELSE ord

----------------------------------------------------------------------------
(* The extended position cache: Additions.getExtendedPositions             *)

\* The keys of ordinal.index: "raw" while no data grouping is applied.
Keys == {"raw"}

EmptyIndex == [def |-> TRUE, entries |-> [k \in Keys |-> None]]

DeletedIndex == [def |-> FALSE, entries |-> [k \in Keys |-> None]]

\* The ordinal object `new Additions(axis)` makes, and the one of a fake axis.
\* hung is no field of the program: it tells that a call of
\* getOverscrollPositions on the object has entered a loop that does not end.
NewOrdinal ==
    [positions |-> None,
     slope |-> Undefined,
     offset |-> Undefined,
     overscrollPointsRange |-> Undefined,
     originalOrdinalRange |-> Undefined,
     index |-> EmptyIndex,
     hung |-> FALSE]

\* series.closestPointRange as processData leaves it: the smallest distance
\* between two neighbours, undefined for fewer than two points.
closestPointRangeOf(xs) == MinDefined(Gaps(xs))

\* The fake series getExtendedPositions builds from a series: the full xData,
\* with the overscroll positions when asked, run through processData without
\* data grouping.
fakeSeriesOf(s, overscrollPositions) ==
    LET xData == NumSeq(s.xData) \o overscrollPositions
    IN  [processedXData |-> xData,
         reserveSpace |-> s.visible,
         takeOrdinalPosition |-> TRUE,
         boosted |-> FALSE,
         navigator |-> FALSE,
         closestPointRange |-> closestPointRangeOf(xData)]

fakeAxisOf(ax, allSeries, overscroll, overscrollPositions) ==
    [series |-> [k \in 1..Len(allSeries) |->
                    fakeSeriesOf(allSeries[k], overscrollPositions)],
     min |-> ax.dataMin,
     max |-> Add(ax.dataMax, overscroll),
     dataMin |-> Undefined,
     dataMax |-> Undefined,
     len |-> Undefined,
     hasBreaks |-> FALSE,
     forceOrdinal |-> FALSE,
     closestPointRange |-> Undefined,
     chartSeries |-> <<>>,
     options |-> [ordinal |-> TRUE,
                  keepOrdinalPadding |-> FALSE,
                  overscroll |-> NoOverscroll]]

\* The end of `if (!ordinalIndex[key])`: originalOrdinalRange taken from the
\* fake axis when unset, and the positions of the fake axis cached. fake is
\* the ordinal object of the fake axis. built tells that the position
\* set builder was run by the call, hangs that a getOverscrollPositions call
\* made for a series does not return.
cacheExtended(ord, fake, hangs) ==
    LET key == "raw"
        ordinalIndex == IF ord.index.def THEN ord.index ELSE EmptyIndex
        range == IF /\ ~Truthy(ord.originalOrdinalRange)
                    /\ Truthy(fake.originalOrdinalRange)
                 THEN fake.originalOrdinalRange
                 ELSE ord.originalOrdinalRange
    IN  [ret |-> fake.positions,
         built |-> TRUE,
         ord |-> [ord EXCEPT
                     !.originalOrdinalRange = range,
                     !.hung = @ \/ hangs,
                     !.index = [ordinalIndex EXCEPT
                                   !.entries[key] = fake.positions]]]

\* The body of `if (!ordinalIndex[key])` in getExtendedPositions: the
\* positions of the fake axis, stored under the key, and the ordinal object
\* afterwards.
extendedPositionsOf(ax, allSeries, ord, withOverscroll) ==
    cacheExtended(
        ord,
        beforeSetTickPositionsOnFake(
            fakeAxisOf(ax, allSeries,
                       IF withOverscroll
                       THEN convertOverscroll(ax, ord, ax.options.overscroll)
                       ELSE N(0),
                       IF withOverscroll THEN getOverscrollPositions(ax, ord)
                       ELSE <<>>),
            NewOrdinal),
        /\ withOverscroll
        /\ Len(allSeries) > 0
        /\ overscrollLoopDiverges(ax, ord))

\* getExtendedPositions that builds the positions anew on every call.
getExtendedPositionsNoCache(ax, allSeries, ord, withOverscroll) ==
    extendedPositionsOf(ax, allSeries, ord, withOverscroll)

\* getExtendedPositions(withOverscroll) on axis ax with the series allSeries
\* (the chart's series records, holding the full xData): the array returned
\* and the ordinal object afterwards.
getExtendedPositions(ax, allSeries, ord, withOverscroll) ==
    LET key == "raw"
        ordinalIndex == IF ord.index.def THEN ord.index ELSE EmptyIndex
    IN  IF ~ordinalIndex.entries[key].def
        THEN extendedPositionsOf(ax, allSeries, ord, withOverscroll)
        ELSE [ret |-> ordinalIndex.entries[key],
              built |-> FALSE,
              ord |-> [ord EXCEPT !.index = ordinalIndex]]

----------------------------------------------------------------------------
(* The position set builder on the live axis                               *)

\* val2lin(val, true) given e, the result of its call of
\* getExtendedPositions: the index and the ordinal object afterwards.
ordinal2linWith(e, val) ==
    [ret |-> val2lin(e.ord, e.ret, val, TRUE), ord |-> e.ord]

\* ordinal2lin(val, true) from inside beforeSetTickPositions.
ordinal2lin(ax, ord, val) ==
    ordinal2linWith(IF val2linAsksExtended(ord, val)
                    THEN getExtendedPositions(ax, ax.chartSeries, ord, TRUE)
                    ELSE [ret |-> None, ord |-> ord],
                    val)

\* The slope and offset from lo and hi, the results of ordinal2lin for min
\* and for max.
slopeFromMax(ax, useOrdinal, lo, hi) ==
    [ord |-> recordSlope(ax, hi.ord, lo.ret, hi.ret),
     isOrdinal |-> ax.options.ordinal /\ useOrdinal]

slopeFromMin(ax, r, lo) ==
    slopeFromMax(ax, r.useOrdinal, lo,
                 ordinal2lin(ax, lo.ord, maxInside(ax, r.ord)))

\* The slope and offset on the live axis; r is what registerPositions gave.
slopeOnLive(ax, r) ==
    IF r.registered
    THEN slopeFromMin(ax, r, ordinal2lin(ax, r.ord, minInside(ax, r.ord)))
    ELSE [ord |-> r.ord, isOrdinal |-> ax.options.ordinal /\ r.useOrdinal]

\* beforeSetTickPositions: the ordinal object afterwards and the value
\* written to axis.isOrdinal.
beforeSetTickPositions(ax, ord) ==
    IF ax.options.ordinal \/ ax.hasBreaks
    THEN slopeOnLive(ax, registerPositions(ax, ord))
    ELSE [ord |-> ord, isOrdinal |-> FALSE]

----------------------------------------------------------------------------
(* lin2val and Additions.getIndexOfPoint                                   *)
(* env holds what a call reads from the rest of the chart: transA (also    *)
(* axis.translationSlope), minPixelPadding, axis.old and the plotX of the  *)
(* first point of each series.                                             *)

\* a || b
Or(a, b) == IF Truthy(a) THEN a ELSE b

hasPointsInside(s, ax) ==
    /\ Defined(ax.min)
    /\ Defined(ax.max)
    /\ \E k \in 1..Len(s.processedXData) :
           Ge(s.processedXData[k], ax.min) /\ Le(s.processedXData[k], ax.max)

\* The forEach of getIndexOfPoint over the first n series: the plotX and the
\* x of the leftmost first point.
RECURSIVE firstPointOf(_, _, _)
firstPointOf(ax, env, n) ==
    IF n = 0 THEN [firstPointX |-> Undefined, firstPointVal |-> N(0)]
    ELSE LET acc == firstPointOf(ax, env, n - 1)
             s == ax.series[n]
             plotX == IF Len(s.processedXData) > 0 THEN env.plotX[n]
                      ELSE Undefined
         IN  IF /\ Defined(plotX)
                /\ (Lt(plotX, acc.firstPointX) \/ ~Defined(acc.firstPointX))
                /\ hasPointsInside(s, ax)
             THEN [firstPointX |-> plotX,
                   firstPointVal |-> At(s.processedXData, 0)]
             ELSE acc

getIndexOfPoint(ax, ord, env, val, ordinalArray) ==
    LET first == firstPointOf(ax, env, Len(ax.series))
        firstPointX == Pick(first.firstPointX, env.minPixelPadding)
        ordinalPointPixelInterval ==
            Mul(env.transA,
                Or(ord.slope, Or(ax.closestPointRange,
                                 ord.overscrollPointsRange)))
        shiftIndex == Div(Sub(val, firstPointX), ordinalPointPixelInterval)
    IN  Add(N(findIndexOf(ordinalArray, first.firstPointVal, TRUE)),
            shiftIndex)

\* The index lin2val computes for val on the extended positions.
lin2valIndex(ax, ord, env, positions, val) ==
    LET localMin == IF env.old.def THEN env.old.min ELSE ax.min
        localA == IF env.old.def THEN env.old.transA ELSE env.transA
        pixelVal == Add(Mul(Sub(val, localMin), localA), env.minPixelPadding)
    IN  getIndexOfPoint(ax, ord, env, pixelVal, positions)

\* lin2val, given what its call of getExtendedPositions returned.
lin2val(ax, ord, env, extended, val) ==
    IF NonEmpty(extended)
    THEN LET positions == extended.val
             index == lin2valIndex(ax, ord, env, positions, val)
             mantissa == Sub(index, MathFloor(index))
             leftNeighbour == AtNum(positions, MathFloor(index))
             rightNeighbour == AtNum(positions, MathCeil(index))
             distance == Sub(rightNeighbour, leftNeighbour)
         IN  IF Ge(index, N(0)) /\ Le(index, N(Len(positions) - 1))
             THEN Add(leftNeighbour, Mul(mantissa, distance))
             ELSE val
    ELSE val

----------------------------------------------------------------------------
(* onChartPan                                                              *)
(* A pan event e is [delta, translationSlope, panning, panningType,        *)
(* touches]: delta is chart.mouseDownX - chartX, panning tells whether     *)
(* chart.options.chart.panning is set, panningType is its type and touches *)
(* the number of touches of the event.                                     *)

\* Math.round
MathRound(a) == MathFloor(Add(a, Norm(1, 2)))

\* Math.abs
MathAbs(a) == LET x == ToNumber(a) IN <<Abs(x[1]), x[2]>>

\* "How many ordinal units did we move?"
movedUnitsOf(ax, ord, e) ==
    LET closestPointRange ==
            Or(ax.closestPointRange, ord.overscrollPointsRange)
        pointPixelWidth ==
            Mul(e.translationSlope, Or(ord.slope, closestPointRange))
    IN  MathRound(Div(e.delta, pointPixelWidth))

\* The test that ends the handler: "make sure panning to the edges does not
\* decrease the zoomed range".
panRejected(ax, overscroll, movedUnits) ==
    \/ Le(ax.min, ax.dataMin) /\ Lt(movedUnits, N(0))
    \/ Ge(Add(ax.max, overscroll), ax.dataMax) /\ Gt(movedUnits, N(0))

\* ordinalPositions.push(dataMax) when dataMax lies beyond the last position
pushDataMax(ax, ordinalPositions) ==
    IF Gt(ax.dataMax, Last(ordinalPositions))
    THEN Append(ordinalPositions, ax.dataMax)
    ELSE ordinalPositions

\* extendedAxis.ordinal: the extended positions and nothing else.
extendedAxisOrdinal(extendedOrdinalPositions) ==
    [positions |-> Some(extendedOrdinalPositions),
     slope |-> Undefined,
     offset |-> Undefined]

\* The pan target taken on the values: the moved units added to val.
panTargetOnValues(extendedOrdinalPositions, val, movedUnits) ==
    Add(val, movedUnits)

\* index2val.apply(extendedAxis, [val2lin.apply(extendedAxis, [val, true])
\* + movedUnits])
panTarget(extendedOrdinalPositions, val, movedUnits) ==
    index2val(Some(extendedOrdinalPositions),
              Add(val2lin(extendedAxisOrdinal(extendedOrdinalPositions),
                          None, val, TRUE),
                  movedUnits))

\* navigatorAxis.toFixedRange(undefined, undefined, fixedMin, fixedMax): the
\* fixed extremes are the new extremes.
toFixedRange(fixedMin, fixedMax) == [min |-> fixedMin, max |-> fixedMax]

\* The range test that lets every pan through.
withinDataRangeAlways(ax, overscroll, trimmedRange) == TRUE

\* "Apply it if it is within the available data range"
withinDataRange(ax, overscroll, trimmedRange) ==
    /\ Ge(trimmedRange.min, MathMin(ax.dataMin, ax.min))
    /\ Le(trimmedRange.max, Add(MathMax(ax.dataMax, ax.max), overscroll))

\* What a run of the handler leaves: how it ended, the ordinal object, the
\* extremes given to setExtremes when it was called, and the extended
\* positions and moved units it worked with.
panResult(outcome, ax, ord, extended, movedUnits, trimmedRange) ==
    [outcome |-> outcome, ord |-> ord, extended |-> extended,
     movedUnits |-> movedUnits,
     min |-> IF outcome = "committed" THEN trimmedRange.min ELSE ax.min,
     max |-> IF outcome = "committed" THEN trimmedRange.max ELSE ax.max]

\* The branch `Math.abs(movedUnits) > 1` on the extended positions, dataMax
\* pushed: the array of the cache is the one pushed to.
panMove(ax, overscroll, movedUnits, ord, ordinalPositions) ==
    panResult(
        IF withinDataRange(ax, overscroll,
               toFixedRange(panTarget(ordinalPositions, ax.min, movedUnits),
                            panTarget(ordinalPositions, ax.max, movedUnits)))
        THEN "committed" ELSE "outside",
        ax,
        [ord EXCEPT !.index.entries["raw"] = Some(ordinalPositions)],
        Some(ordinalPositions),
        movedUnits,
        toFixedRange(panTarget(ordinalPositions, ax.min, movedUnits),
                     panTarget(ordinalPositions, ax.max, movedUnits)))

\* The body of the first `if` of the handler; e is what getExtendedPositions
\* returned.
panOrdinal(ax, overscroll, movedUnits, e) ==
    IF panRejected(ax, overscroll, movedUnits)
    THEN panResult("rejected", ax, e.ord, e.ret, movedUnits, <<>>)
    ELSE IF ~e.ret.def
    THEN panResult("base", ax, e.ord, e.ret, movedUnits, <<>>)
    ELSE IF Gt(MathAbs(movedUnits), N(1))
    THEN panMove(ax, overscroll, movedUnits, e.ord,
                 pushDataMax(ax, e.ret.val))
    ELSE panResult("ignored", ax, e.ord, e.ret, movedUnits, <<>>)

\* The handler up to "Revert to the linear chart.pan version".
onChartPan(ax, allSeries, ord, e) ==
    IF /\ e.panning
       /\ e.panningType # "y"
       /\ ax.options.ordinal
       /\ Len(ax.series) > 0
       /\ e.touches <= 1
    THEN panOrdinal(ax, convertOverscroll(ax, ord, ax.options.overscroll),
                    movedUnitsOf(ax, ord, e),
                    getExtendedPositions(ax, allSeries, ord, TRUE))
    ELSE panResult("base", ax, ord, None, Undefined, <<>>)

\* The end of the handler, reached unless the pan was rejected: whether
\* `xAxis.max = xAxis.dataMax + overscroll` runs.
panWritesMax(ax, overscroll, e, outcome) ==
    /\ outcome # "rejected"
    /\ outcome = "base" \/ (e.panning /\ e.panningType \in {"y", "xy"})
    /\ Truthy(overscroll)

----------------------------------------------------------------------------
(* getTimeTicks                                                            *)
(* Time runs in hours: timeUnits.hour is 1 and a day has Day hours. An     *)
(* interval is [unitRange, count]. A tick array is [ticks, info]: the      *)
(* tick values and the info object attached to them, [def, unitRange,      *)
(* count, higherRanks, segmentStarts], def telling whether there is one.   *)
(* The axis is [ordinal, breaks, tickPixelInterval, transA, min]: its      *)
(* options, and the slope and the minimum axis.translate maps values to    *)
(* pixels with.                                                            *)

Hour == 1

Day == 4

RECURSIVE ticksFrom(_, _, _)
ticksFrom(t, max, step) ==
    IF Lt(t, max) THEN <<t>> \o ticksFrom(Add(t, step), max, step)
    ELSE <<t>>

\* time.getTimeTicks: the multiples of the interval from the last one at or
\* below min to the first one at or above max, tagged with the interval.
timeGetTimeTicks(normalizedInterval, min, max) ==
    LET step == N(normalizedInterval.unitRange * normalizedInterval.count)
    IN  [ticks |-> IF IsFinite(min) /\ IsFinite(max)
                   THEN ticksFrom(Mul(MathFloor(Div(min, step)), step),
                                  max, step)
                   ELSE <<>>,
         info |-> [def |-> TRUE,
                   unitRange |-> normalizedInterval.unitRange,
                   count |-> normalizedInterval.count,
                   higherRanks |-> {},
                   segmentStarts |-> None]]

\* time.dateFormat('%d', t): the day t falls on.
dayOf(t) == MathFloor(Div(t, N(Day)))

\* axis.translate(val): the pixel position of a value, 0 at axis.min.
translate(ax, val) == Mul(ax.transA, Sub(val, ax.min))

\* A test that lets short position arrays through to the loop.
ticksBypassedWhateverLength(ax, g) ==
    \/ ~ax.ordinal /\ ~ax.breaks
    \/ ~g.positions.def
    \/ ~Defined(g.min)

\* The test that hands the call to time.getTimeTicks.
ticksBypassed(ax, g) ==
    \/ ~ax.ordinal /\ ~ax.breaks
    \/ ~g.positions.def
    \/ Len(g.positions.val) < 3
    \/ ~Defined(g.min)

\* The locals of getTimeTicks before the loop over the positions.
scanStart ==
    [start |-> 0,
     groupPositions |-> <<>>,
     lastGroupPosition |-> N(-NumberMaxValue),
     segmentStarts |-> <<>>,
     segmentPositions |-> [def |-> FALSE],
     outsideMax |-> FALSE,
     calls |-> <<>>]

\* Nothing is shifted off the ticks of a segment.
dropNothing(segmentPositions, lastGroupPosition) == segmentPositions

\* while (segmentPositions.length && segmentPositions[0] <=
\* lastGroupPosition) segmentPositions.shift()
RECURSIVE dropAccepted(_, _)
dropAccepted(segmentPositions, lastGroupPosition) ==
    IF Len(segmentPositions) > 0 /\ Le(segmentPositions[1], lastGroupPosition)
    THEN dropAccepted(Tail(segmentPositions), lastGroupPosition)
    ELSE segmentPositions

\* The segment from st.start to end is given its ticks: seg is what
\* time.getTimeTicks returned for it.
appendSegment(st, end, outsideMax, min, max, seg, kept) ==
    [start |-> end + 1,
     groupPositions |-> st.groupPositions \o kept,
     lastGroupPosition |->
         IF Len(kept) > 0 THEN Last(kept) ELSE st.lastGroupPosition,
     segmentStarts |-> Append(st.segmentStarts, Len(st.groupPositions)),
     segmentPositions |-> seg.info,
     outsideMax |-> outsideMax,
     calls |-> Append(st.calls, [min |-> min, max |-> max])]

\* A segment that is given the ticks between the extremes of the call.
closeSegmentAtExtremes(g, st, end, start, outsideMax) ==
    IF Gt(At(g.positions.val, end), st.lastGroupPosition)
    THEN appendSegment(st, end, outsideMax, g.min, g.max,
             timeGetTimeTicks(g.normalizedInterval, g.min, g.max),
             dropAccepted(
                 timeGetTimeTicks(g.normalizedInterval, g.min, g.max).ticks,
                 st.lastGroupPosition))
    ELSE [st EXCEPT !.start = end + 1, !.outsideMax = outsideMax]

\* A segment that ends at index end, from index start.
closeSegment(g, st, end, start, outsideMax) ==
    IF Gt(At(g.positions.val, end), st.lastGroupPosition)
    THEN appendSegment(st, end, outsideMax,
             At(g.positions.val, start), At(g.positions.val, end),
             timeGetTimeTicks(g.normalizedInterval,
                              At(g.positions.val, start),
                              At(g.positions.val, end)),
             dropAccepted(
                 timeGetTimeTicks(g.normalizedInterval,
                                  At(g.positions.val, start),
                                  At(g.positions.val, end)).ticks,
                 st.lastGroupPosition))
    ELSE [st EXCEPT !.start = end + 1, !.outsideMax = outsideMax]

\* A body of the loop that closes no segment at a gap.
scanStepOverGaps(g, st, end) ==
    LET positions == g.positions.val
        outsideMax == end > 0 /\ Gt(At(positions, end - 1), g.max)
        start == IF Lt(At(positions, end), g.min) THEN end ELSE st.start
    IN  IF end = Len(positions) - 1 \/ outsideMax
        THEN closeSegment(g, st, end, start, outsideMax)
        ELSE [st EXCEPT !.start = start, !.outsideMax = outsideMax]

\* One run of the body of `for (end = 0; end < posLength; end++)`.
scanStep(g, st, end) ==
    LET positions == g.positions.val
        outsideMax == end > 0 /\ Gt(At(positions, end - 1), g.max)
        start == IF Lt(At(positions, end), g.min) THEN end ELSE st.start
    IN  IF \/ end = Len(positions) - 1
           \/ Gt(Sub(At(positions, end + 1), At(positions, end)),
                 Mul(g.closestDistance, N(5)))
           \/ outsideMax
        THEN closeSegment(g, st, end, start, outsideMax)
        ELSE [st EXCEPT !.start = start, !.outsideMax = outsideMax]

RECURSIVE scanFrom(_, _, _)
RECURSIVE scanOn(_, _, _)
\* The loop from index end on; it breaks after a step that found outsideMax.
scanFrom(g, st, end) ==
    IF end < Len(g.positions.val) THEN scanOn(g, scanStep(g, st, end), end)
    ELSE st

scanOn(g, st, end) ==
    IF st.outsideMax THEN st ELSE scanFrom(g, st, end + 1)

\* The ticks marked as higher rank: those from the second to the one before
\* the last that fall on another day than the tick before them, and the
\* first tick when there is one of those.
higherRanksOf(groupPositions) ==
    LET crossed ==
            {groupPositions[k] :
                k \in {j \in 2..(Len(groupPositions) - 1) :
                          dayOf(groupPositions[j]) #
                          dayOf(groupPositions[j - 1])}}
    IN  IF crossed # {} THEN crossed \cup {groupPositions[1]} ELSE {}

\* The higherRanks object after the block `if (segmentPositions)`.
ranksAfterScan(g, st) ==
    IF /\ st.segmentPositions.def
       /\ g.findHigherRanks
       /\ st.segmentPositions.unitRange <= Hour
    THEN higherRanksOf(st.groupPositions)
    ELSE {}

\* groupPositions.info after the block `if (segmentPositions)`.
infoAfterScan(g, st) ==
    IF st.segmentPositions.def
    THEN [st.segmentPositions EXCEPT
             !.higherRanks =
                 IF g.findHigherRanks /\ st.segmentPositions.unitRange <= Hour
                 THEN higherRanksOf(st.groupPositions)
                 ELSE @,
             !.segmentStarts = Some(st.segmentStarts)]
    ELSE [def |-> FALSE]

\* The pixel positions of the ticks.
translatedOf(ax, groupPositions) ==
    [k \in 1..Len(groupPositions) |-> translate(ax, groupPositions[k])]

\* The indices i at which `distances[i] = lastTranslated - translated` runs:
\* those with a tick to the right whose pixel position is not 0.
distanceIndices(translatedArr) ==
    {i \in 0..(Len(translatedArr) - 2) : Truthy(At(translatedArr, i + 1))}

\* distances.sort(...): the distances that were set, ascending.
RECURSIVE distancesOver(_, _)
distancesOver(translatedArr, indices) ==
    IF indices = {} THEN <<>>
    ELSE LET i == CHOOSE x \in indices : TRUE
         IN  InsertSorted(distancesOver(translatedArr, indices \ {i}),
                          Sub(At(translatedArr, i + 1), At(translatedArr, i)))

\* distances.length: one more than the largest index that was set.
distancesLength(indices) ==
    IF indices = {} THEN 0
    ELSE (CHOOSE i \in indices : \A j \in indices : j <= i) + 1

\* medianDistance: null when it lies below 0.6 times the tick pixel
\* interval.
medianOf(ax, translatedArr) ==
    LET indices == distanceIndices(translatedArr)
        medianDistance == At(distancesOver(translatedArr, indices),
                             distancesLength(indices) \div 2)
    IN  [null |-> Lt(medianDistance, Mul(ax.tickPixelInterval, Norm(3, 5))),
         val |-> medianDistance]

\* groupPositions.splice(itemToRemove, 1)
splice(arr, itemToRemove) ==
    IF itemToRemove < Len(arr)
    THEN SubSeq(arr, 1, itemToRemove) \o SubSeq(arr, itemToRemove + 2, Len(arr))
    ELSE arr

\* The second `while (i--)`: the ticks left when index i is looked at and
\* the ones below it.
RECURSIVE thinFrom(_, _, _, _, _, _, _)
thinFrom(ax, translatedArr, medianDistance, higherRanks, i, groupPositions, lastTranslated) ==
    IF i < 0 THEN groupPositions
    ELSE
      LET translated == At(translatedArr, i)
          distance == MathAbs(Sub(lastTranslated, translated))
      IN  IF /\ Truthy(lastTranslated)
             /\ Lt(distance, Mul(ax.tickPixelInterval, Norm(4, 5)))
             /\ \/ medianDistance.null
                \/ Lt(distance, Mul(medianDistance.val, Norm(4, 5)))
          THEN IF /\ At(groupPositions, i) \in higherRanks
                  /\ At(groupPositions, i + 1) \notin higherRanks
               THEN thinFrom(ax, translatedArr, medianDistance, higherRanks,
                             i - 1, splice(groupPositions, i + 1), translated)
               ELSE thinFrom(ax, translatedArr, medianDistance, higherRanks,
                             i - 1, splice(groupPositions, i), lastTranslated)
          ELSE thinFrom(ax, translatedArr, medianDistance, higherRanks,
                        i - 1, groupPositions, translated)

\* The block `if (findHigherRanks && defined(tickPixelIntervalOption))`.
thinned(ax, g, groupPositions, higherRanks) ==
    IF g.findHigherRanks /\ Defined(ax.tickPixelInterval)
    THEN thinFrom(ax, translatedOf(ax, groupPositions),
                  medianOf(ax, translatedOf(ax, groupPositions)),
                  higherRanks,
                  (IF Gt(Last(groupPositions), g.max)
                   THEN Len(groupPositions) - 1
                   ELSE Len(groupPositions)) - 1,
                  groupPositions, Undefined)
    ELSE groupPositions

\* A getTimeTicks that never signals an error.
ticksAfterScanSilent(ax, g, st) ==
    [ticks |-> thinned(ax, g, st.groupPositions, ranksAfterScan(g, st)),
     info |-> infoAfterScan(g, st),
     error |-> 0,
     assembled |-> st.groupPositions,
     calls |-> st.calls]

\* What getTimeTicks gives after the loop, st being the locals it left:
\* the tick array, the error it signalled (0 for none), the ticks it had
\* assembled before the thinning and the calls of time.getTimeTicks it made.
ticksAfterScan(ax, g, st) ==
    [ticks |-> thinned(ax, g, st.groupPositions, ranksAfterScan(g, st)),
     info |-> infoAfterScan(g, st),
     error |-> IF st.segmentPositions.def THEN 0 ELSE 12,
     assembled |-> st.groupPositions,
     calls |-> st.calls]

\* getTimeTicks(normalizedInterval, min, max, startOfWeek, positions,
\* closestDistance, findHigherRanks) on the axis ax; g holds the arguments.
getTimeTicks(ax, g) ==
    IF ticksBypassed(ax, g)
    THEN [ticks |-> timeGetTimeTicks(g.normalizedInterval, g.min, g.max).ticks,
          info |-> timeGetTimeTicks(g.normalizedInterval, g.min, g.max).info,
          error |-> 0,
          assembled |->
              timeGetTimeTicks(g.normalizedInterval, g.min, g.max).ticks,
          calls |-> <<[min |-> g.min, max |-> g.max]>>]
    ELSE ticksAfterScan(ax, g, scanFrom(g, scanStart, 0))

----------------------------------------------------------------------------
(* The chart around the engine                                             *)

\* The largest x value and the longest data array of a series.
MaxVal == 4

MaxLen == 3

Values == 0..MaxVal

RECURSIVE AscendingSeq(_)
AscendingSeq(S) ==
    IF S = {} THEN <<>>
    ELSE LET m == CHOOSE x \in S : \A y \in S : x <= y
         IN  <<m>> \o AscendingSeq(S \ {m})

\* The sorted x data arrays of at most n points.
DataArrays(n) ==
    {AscendingSeq(S) : S \in {T \in SUBSET Values : Cardinality(T) <= n}}

\* A series of the chart: its full xData and the flags the engine reads.
LineSeries(xData) ==
    [xData |-> xData, visible |-> TRUE, takeOrdinalPosition |-> TRUE,
     boosted |-> FALSE]

\* A flags series, which takes no ordinal position.
FlagsSeries(xData) ==
    [xData |-> xData, visible |-> TRUE, takeOrdinalPosition |-> FALSE,
     boosted |-> FALSE]

BoostedSeries(xData) ==
    [xData |-> xData, visible |-> TRUE, takeOrdinalPosition |-> TRUE,
     boosted |-> TRUE]

HiddenSeries(xData) ==
    [xData |-> xData, visible |-> FALSE, takeOrdinalPosition |-> TRUE,
     boosted |-> FALSE]

\* processData without cropping: the processed x data is the full x data.
processedXDataOf(s) == NumSeq(s.xData)

seriesView(s) ==
    [processedXData |-> processedXDataOf(s),
     reserveSpace |-> s.visible,
     takeOrdinalPosition |-> s.takeOrdinalPosition,
     boosted |-> s.boosted,
     navigator |-> FALSE,
     closestPointRange |-> closestPointRangeOf(processedXDataOf(s))]

\* x extremes of the series that reserve space (Axis.getSeriesExtremes).
dataMinOf(allSeries) ==
    MinDefined([k \in 1..Len(allSeries) |->
                   IF allSeries[k].visible
                   THEN At(NumSeq(allSeries[k].xData), 0) ELSE Undefined])

dataMaxOf(allSeries) ==
    MaxDefined([k \in 1..Len(allSeries) |->
                   IF allSeries[k].visible
                   THEN Last(NumSeq(allSeries[k].xData)) ELSE Undefined])

\* axis.closestPointRange (Axis.getClosest)
axisClosestPointRange(allSeries) ==
    MinDefined([k \in 1..Len(allSeries) |->
                   IF allSeries[k].visible
                   THEN closestPointRangeOf(processedXDataOf(allSeries[k]))
                   ELSE Undefined])

\* The axis as the engine reads it.
axisView(allSeries, a) ==
    [series |-> [k \in 1..Len(allSeries) |-> seriesView(allSeries[k])],
     min |-> a.min,
     max |-> a.max,
     dataMin |-> dataMinOf(allSeries),
     dataMax |-> dataMaxOf(allSeries),
     len |-> N(a.len),
     hasBreaks |-> a.hasBreaks,
     forceOrdinal |-> a.forceOrdinal,
     closestPointRange |-> axisClosestPointRange(allSeries),
     chartSeries |-> allSeries,
     options |-> a.options]

Ax == axisView(series, axis)

\* getExtendedPositions as the live axis runs it.
liveExtended(ord) == getExtendedPositions(Ax, series, ord, TRUE)

----------------------------------------------------------------------------
(* Actions                                                                 *)

Idle == [op |-> "idle"]

\* The engine is synchronous: a call returns before the next one is made,
\* and none is made after a call that does not return.
Quiet == call.op \in {"idle", "beforeSetTickPositions"} /\ ~ordinal.hung

\* onAxisInitialAxisTranslation: the recompute before tick positions, on
\* the axis a.
recomputed(a, r) ==
    /\ ordinal' = r.ord
    /\ axis' = [a EXCEPT !.isOrdinal = r.isOrdinal]
    /\ call' = [op |-> "beforeSetTickPositions"]

recompute(a) ==
    recomputed(a, beforeSetTickPositions(axisView(series, a), ordinal))

BeforeSetTickPositions ==
    /\ Quiet
    /\ recompute(axis)
    /\ UNCHANGED series

\* The extremes setExtremes may be given.
Windows == {<<0, MaxVal>>, <<1, 3>>}

\* axis.setExtremes(min, max, true, ...): new extremes, then the redraw
\* runs the recompute.
SetExtremes ==
    /\ Quiet
    /\ \E w \in Windows :
        /\ <<axis.min, axis.max>> # <<N(w[1]), N(w[2])>>
        /\ recompute([axis EXCEPT !.min = N(w[1]), !.max = N(w[2])])
        /\ UNCHANGED series

\* Breaks are put on the axis or taken off it (axis.brokenAxis.hasBreaks).
SetBreaks ==
    /\ Quiet
    /\ axis' = [axis EXCEPT !.hasBreaks = ~axis.hasBreaks]
    /\ call' = Idle
    /\ UNCHANGED <<series, ordinal>>

\* onSeriesUpdatedData that deletes originalOrdinalRange and keeps the index.
onSeriesUpdatedDataKeepsIndex(a, ord) ==
    IF a.options.ordinal
    THEN [ord EXCEPT !.originalOrdinalRange = Undefined]
    ELSE ord

onSeriesUpdatedData(a, ord) ==
    IF a.options.ordinal
    THEN [ord EXCEPT !.index = DeletedIndex,
                     !.originalOrdinalRange = Undefined]
    ELSE ord

\* A point is appended to a series, which fires updatedData.
SeriesUpdatedData ==
    /\ Quiet
    /\ \E k \in 1..Len(series), x \in Values :
        /\ Len(series[k].xData) < MaxLen
        /\ \A j \in 1..Len(series[k].xData) : series[k].xData[j] < x
        /\ series' = [series EXCEPT ![k].xData = Append(@, x)]
        /\ ordinal' = onSeriesUpdatedData(axis, ordinal)
        /\ call' = Idle
        /\ UNCHANGED axis

\* val2lin(val, toIndex), given e, the result of its call of
\* getExtendedPositions.
val2linCalled(val, toIndex, e) ==
    /\ ordinal' = e.ord
    /\ call' = [op |-> "val2lin", val |-> val, toIndex |-> toIndex,
                ret |-> val2lin(e.ord, e.ret, val, toIndex)]
    /\ UNCHANGED <<series, axis>>

\* The values val2lin is given: the halves from -1 to MaxVal + 2.
AxisValues == {Norm(k, 2) : k \in (-2)..(2 * MaxVal + 4)}

Val2lin ==
    /\ Quiet
    /\ \E v \in AxisValues, toIndex \in BOOLEAN :
        val2linCalled(v, toIndex,
                      IF val2linAsksExtended(ordinal, v)
                      THEN liveExtended(ordinal)
                      ELSE [ret |-> None, ord |-> ordinal])

\* The indices index2val is given: the halves from -1 on.
Indices == {Norm(k, 2) : k \in (-2)..(2 * MaxLen + 2)}

Index2val ==
    /\ Quiet
    /\ \E x \in Indices :
        /\ call' = [op |-> "index2val", index |-> x,
                    ret |-> index2val(ordinal.positions, x),
                    of |-> Undefined]
        /\ UNCHANGED <<series, axis, ordinal>>

\* index2val applied to the index the last val2lin returned.
Index2valOfVal2lin ==
    /\ call.op = "val2lin"
    /\ call.toIndex
    /\ call' = [op |-> "index2val", index |-> call.ret,
                ret |-> index2val(ordinal.positions, call.ret),
                of |-> call.val]
    /\ UNCHANGED <<series, axis, ordinal>>

\* What lin2val finds in the rest of the chart.
Envs ==
    {[transA |-> N(1), minPixelPadding |-> N(0),
      old |-> [def |-> FALSE, min |-> Undefined, transA |-> Undefined],
      plotX |-> <<Undefined, Undefined>>],
     [transA |-> N(2), minPixelPadding |-> N(1),
      old |-> [def |-> TRUE, min |-> N(1), transA |-> N(1)],
      plotX |-> <<N(1), N(0)>>]}

\* lin2val(val), given e, the result of its call of getExtendedPositions.
lin2valCalled(val, env, e) ==
    /\ ordinal' = e.ord
    /\ call' = [op |-> "lin2val", val |-> val,
                index |-> IF NonEmpty(e.ret)
                          THEN lin2valIndex(Ax, e.ord, env, e.ret.val, val)
                          ELSE Undefined,
                ret |-> lin2val(Ax, e.ord, env, e.ret, val)]
    /\ UNCHANGED <<series, axis>>

\* The pixel values lin2val is given.
Pixels == {-1, 1, MaxVal + 2}

Lin2val ==
    /\ Quiet
    /\ \E v \in Pixels, env \in Envs :
        lin2valCalled(N(v), env, liveExtended(ordinal))

getExtendedPositionsCalled(withOverscroll, e) ==
    /\ ordinal' = e.ord
    /\ call' = [op |-> "getExtendedPositions",
                withOverscroll |-> withOverscroll, ret |-> e.ret,
                built |-> e.built]
    /\ UNCHANGED <<series, axis>>

GetExtendedPositions ==
    /\ Quiet
    /\ \E withOverscroll \in BOOLEAN :
        getExtendedPositionsCalled(withOverscroll,
            getExtendedPositions(Ax, series, ordinal, withOverscroll))

\* The pan gestures: drags by a number of pixels in x, one in both
\* directions, one with panning off and one pinch with two touches.
PanDeltas == {-4, -2, -1, 1, 2, 4}

PanEvents ==
    {[delta |-> N(d), translationSlope |-> N(1), panning |-> TRUE,
      panningType |-> "x", touches |-> 0] : d \in PanDeltas}
    \cup {[delta |-> N(2), translationSlope |-> N(1), panning |-> TRUE,
           panningType |-> "xy", touches |-> 1],
          [delta |-> N(2), translationSlope |-> N(1), panning |-> FALSE,
           panningType |-> "x", touches |-> 0],
          [delta |-> N(-2), translationSlope |-> N(1), panning |-> TRUE,
           panningType |-> "x", touches |-> 2]}

\* The state a run of onChartPan leaves; r is the result of the handler,
\* rc the result of the recompute that follows setExtremes when it was
\* called, overscroll the converted overscroll option.
panned(e, r, rc, overscroll) ==
    /\ ordinal' = rc.ord
    /\ axis' = [axis EXCEPT
                   !.min = r.min,
                   !.max = IF panWritesMax(Ax, overscroll, e, r.outcome)
                           THEN Add(Ax.dataMax, overscroll)
                           ELSE r.max,
                   !.isOrdinal = rc.isOrdinal]
    /\ call' = [op |-> "pan", event |-> e, outcome |-> r.outcome,
                movedUnits |-> r.movedUnits, extended |-> r.extended,
                overscroll |-> overscroll,
                min |-> axis.min, max |-> axis.max,
                dataMin |-> Ax.dataMin, dataMax |-> Ax.dataMax,
                newMin |-> r.min, newMax |-> r.max]
    /\ UNCHANGED series

\* setExtremes(trimmedRange.min, trimmedRange.max, true, false, ...) redraws,
\* which runs the recompute; the other outcomes leave the positions alone.
panRecomputed(e, r) ==
    \E rc \in {IF r.outcome = "committed"
                THEN beforeSetTickPositions(
                         axisView(series, [axis EXCEPT !.min = r.min,
                                                       !.max = r.max]),
                         r.ord)
                ELSE [ord |-> r.ord, isOrdinal |-> axis.isOrdinal]} :
        panned(e, r, rc,
               convertOverscroll(Ax, ordinal, axis.options.overscroll))

\* The chart fires pan or touchpan.
Pan ==
    /\ Quiet
    /\ \E e \in PanEvents :
        \E r \in {onChartPan(Ax, series, ordinal, e)} : panRecomputed(e, r)

\* The caller takes the result of a translator call.
Return ==
    /\ call.op \notin {"idle", "beforeSetTickPositions", "findIndexOf"}
    /\ ~ordinal.hung
    /\ call' = Idle
    /\ UNCHANGED <<series, axis, ordinal>>

----------------------------------------------------------------------------
(* The engine on a live chart, on an axis without breaks                   *)

Overscrolls == {NoOverscroll, NumberOverscroll(2)}

\* The pixel length of the axis.
AxisLen == 10

NewAxis(min, max, forceOrdinal, hasBreaks, options) ==
    [min |-> N(min), max |-> N(max), len |-> AxisLen, hasBreaks |-> hasBreaks,
     forceOrdinal |-> forceOrdinal, isOrdinal |-> FALSE, options |-> options]

Charts ==
    {<<LineSeries(xs)>> : xs \in DataArrays(MaxLen)}
    \cup {<<LineSeries(<<0, 1>>), FlagsSeries(<<2, 4>>)>>,
          <<LineSeries(<<0, 1, 3>>), HiddenSeries(<<2>>)>>}

Init ==
    /\ series \in Charts
    /\ axis \in {NewAxis(0, MaxVal, FALSE, FALSE, o) :
                    o \in [ordinal : BOOLEAN, keepOrdinalPadding : {FALSE},
                           overscroll : Overscrolls]}
    /\ ordinal = NewOrdinal
    /\ call = Idle

Next ==
    \/ BeforeSetTickPositions
    \/ SetExtremes
    \/ SeriesUpdatedData
    \/ Val2lin
    \/ Index2val
    \/ Index2valOfVal2lin
    \/ Lin2val
    \/ GetExtendedPositions
    \/ Return

Spec == Init /\ [][Next]_vars

----------------------------------------------------------------------------
(* The recomputes of a chart whose axis gets breaks and loses them         *)

NextRecompute ==
    \/ BeforeSetTickPositions
    \/ SetExtremes
    \/ SetBreaks
    \/ SeriesUpdatedData

SpecRecompute == Init /\ [][NextRecompute]_vars

----------------------------------------------------------------------------
(* Panning a rendered chart                                                *)

\* The first render has run the recompute on the new axis a.
Rendered(a, r) ==
    /\ ordinal = r.ord
    /\ axis = [a EXCEPT !.isOrdinal = r.isOrdinal]

InitPan ==
    /\ series \in Charts
    /\ \E o \in [ordinal : BOOLEAN, keepOrdinalPadding : {FALSE},
                 overscroll : Overscrolls] :
          Rendered(NewAxis(0, MaxVal, FALSE, FALSE, o),
                   beforeSetTickPositions(
                       axisView(series, NewAxis(0, MaxVal, FALSE, FALSE, o)),
                       NewOrdinal))
    /\ call = Idle

NextPan ==
    \/ Pan
    \/ SetExtremes
    \/ SeriesUpdatedData
    \/ BeforeSetTickPositions
    \/ Return

SpecPan == InitPan /\ [][NextPan]_vars

----------------------------------------------------------------------------
(* The position set builder on every chart                                 *)

SecondSeries ==
    {LineSeries(<<1, 4>>), FlagsSeries(<<2>>), BoostedSeries(<<0, 2>>),
     HiddenSeries(<<1, 2>>)}

BuildCharts ==
    {<<>>}
    \cup {<<LineSeries(xs)>> : xs \in DataArrays(MaxLen)}
    \cup {<<LineSeries(xs), s>> : xs \in DataArrays(MaxLen), s \in SecondSeries}

InitBuild ==
    /\ series \in BuildCharts
    /\ axis \in {NewAxis(w[1], w[2], f, b, o) :
                    w \in {v \in Values \X Values : v[1] < v[2]},
                    f \in BOOLEAN, b \in BOOLEAN,
                    o \in [ordinal : {TRUE}, keepOrdinalPadding : BOOLEAN,
                           overscroll : Overscrolls]}
    /\ ordinal = NewOrdinal
    /\ call = Idle

NextBuild == BeforeSetTickPositions

SpecBuild == InitBuild /\ [][NextBuild]_vars

----------------------------------------------------------------------------
(* The position set builder with an overscroll given as a percentage       *)

\* Charts of one series with at most two points, or of no series.
PercentCharts == {<<>>} \cup {<<LineSeries(xs)>> : xs \in DataArrays(2)}

InitPercent ==
    /\ series \in PercentCharts
    /\ axis \in {NewAxis(w[1], w[2], f, b, o) :
                    w \in {v \in Values \X Values : v[1] < v[2]},
                    f \in BOOLEAN, b \in BOOLEAN,
                    o \in [ordinal : {TRUE}, keepOrdinalPadding : BOOLEAN,
                           overscroll : {StringOverscroll(<<"5", "0", "%">>)}]}
    /\ ordinal = NewOrdinal
    /\ call = Idle

NextPercent == BeforeSetTickPositions

SpecPercent == InitPercent /\ [][NextPercent]_vars

----------------------------------------------------------------------------
(* The binary search on its own                                            *)

\* The largest value of the arrays findIndexOf is run on.
MaxKey == 9

SearchArrays == {AscendingSeq(S) : S \in SUBSET (0..MaxKey)}

FindIndexOf ==
    /\ call = Idle
    /\ \E arr \in SearchArrays, key \in (-1)..(MaxKey + 1),
          indirectSearch \in BOOLEAN :
        /\ call' = [op |-> "findIndexOf", sortedArray |-> arr, key |-> key,
                    indirectSearch |-> indirectSearch,
                    ret |-> findIndexOf(NumSeq(arr), N(key), indirectSearch)]
        /\ UNCHANGED <<series, axis, ordinal>>

InitFind ==
    /\ series = <<>>
    /\ axis = NewAxis(0, MaxVal, FALSE, FALSE,
                      [ordinal |-> TRUE, keepOrdinalPadding |-> FALSE,
                       overscroll |-> NoOverscroll])
    /\ ordinal = NewOrdinal
    /\ call = Idle

NextFind == FindIndexOf

SpecFind == InitFind /\ [][NextFind]_vars

----------------------------------------------------------------------------
(* convertOverscroll on its own                                            *)

\* The strings the overscroll option is given.
OverscrollStrings ==
    {<<"1", "0", "%">>, <<"5", "0", "%">>, <<"1", ".", "5", "%">>,
     <<"5", "0", "p", "x">>, <<"5", "p", "x">>, <<"8", "0", "0", "p", "x">>,
     <<"-", "5", "p", "x">>, <<"5", "p", "x", "q">>, <<"a", "b", "c">>,
     <<"1", "0">>, <<>>}

OverscrollOptions ==
    {NoOverscroll, NumberOverscroll(0), NumberOverscroll(2)}
    \cup {StringOverscroll(s) : s \in OverscrollStrings}

\* axis.len: an axis without extent, a short one and one of 500 pixels.
AxisLengths == {N(0), N(AxisLen), N(500)}

\* dataMin and dataMax: undefined without data.
DataExtremes == {<<Undefined, Undefined>>, <<N(0), N(100)>>, <<N(1), N(MaxVal)>>}

\* ordinal.originalOrdinalRange: deleted, or set by an earlier recompute.
OrdinalRanges == {Undefined, N(0), N(2 * MaxVal)}

ConvertOverscroll ==
    /\ call = Idle
    /\ \E o \in OverscrollOptions, len \in AxisLengths, e \in DataExtremes,
          r \in OrdinalRanges :
        call' = [op |-> "convertOverscroll", overscroll |-> o, len |-> len,
                 dataMin |-> e[1], dataMax |-> e[2],
                 originalOrdinalRange |-> r,
                 ret |-> convertOverscroll(
                             [dataMin |-> e[1], dataMax |-> e[2], len |-> len],
                             [originalOrdinalRange |-> r], o)]
    /\ UNCHANGED <<series, axis, ordinal>>

NextOverscroll == ConvertOverscroll

SpecOverscroll == InitFind /\ [][NextOverscroll]_vars

----------------------------------------------------------------------------
(* Claims about findIndexOf, under SpecFind                                *)

FindCalled == call.op = "findIndexOf"

\* The value arr[i] of a data array at a zero-based index.
Elem(arr, i) == arr[i + 1]

\* i is the greatest index of arr whose value is at most key.
IsFloorIndex(arr, key, i) ==
    /\ i \in 0..(Len(arr) - 1)
    /\ Elem(arr, i) <= key
    /\ \A j \in 0..(Len(arr) - 1) : Elem(arr, j) <= key => j <= i

\* What a search without indirectSearch answers: the index of the key, or -1.
IsExactIndex(arr, key, i) ==
    IF \E j \in 0..(Len(arr) - 1) : Elem(arr, j) = key
    THEN i \in 0..(Len(arr) - 1) /\ Elem(arr, i) = key
    ELSE i = -1

\* C1 as stated: for every strictly ascending array and every key, the
\* indirect search returns the greatest index whose value is at most the
\* key, and the direct search the index of the key or -1.
C1_AsStated ==
    FindCalled =>
        IF call.indirectSearch
        THEN IsFloorIndex(call.sortedArray, call.key, call.ret)
        ELSE IsExactIndex(call.sortedArray, call.key, call.ret)

\* C1 (amended): for a non-empty strictly ascending array and a key that is
\* at least its first value, the indirect search returns the greatest index
\* whose value is at most the key; for a smaller key, or an empty array, it
\* returns 0. The direct search returns the index of the key, or -1 when the
\* key is not in the array.
C1_FindIndexOf ==
    FindCalled =>
        IF call.indirectSearch
        THEN IF Len(call.sortedArray) > 0 /\ call.sortedArray[1] <= call.key
             THEN IsFloorIndex(call.sortedArray, call.key, call.ret)
             ELSE call.ret = 0
        ELSE IsExactIndex(call.sortedArray, call.key, call.ret)

\* An indirect search for a key that lies between two values of the array.
C1_Witness ==
    /\ FindCalled
    /\ call.indirectSearch
    /\ Len(call.sortedArray) = 4
    /\ call.ret = 2
    /\ Elem(call.sortedArray, 2) < call.key
    /\ call.key < Elem(call.sortedArray, 3)

C2Case == FindCalled /\ call.sortedArray = <<1, 3, 5, 7, 9>> /\ call.key = 6

\* C2 as stated: on [1,3,5,7,9] with key 6 the indirect search returns
\* index 1 and the direct search -1.
C2_AsStated ==
    C2Case => call.ret = IF call.indirectSearch THEN 1 ELSE -1

\* C2 (amended): on [1,3,5,7,9] with key 6 the indirect search returns
\* index 2, the index of 5, and the direct search returns -1.
C2_Example ==
    C2Case => call.ret = IF call.indirectSearch THEN 2 ELSE -1

\* The indirect search for 6 in [1,3,5,7,9] has returned 2.
C2_Witness == C2Case /\ call.indirectSearch /\ call.ret = 2

----------------------------------------------------------------------------
(* Claims about the translators, under Spec                                *)

\* The registered positions, when there are any.
P == ordinal.positions.val

\* The extended positions the cache holds under the current key.
Ext == ordinal.index.entries["raw"]

StrictlyAscending(arr) ==
    \A k \in 1..(Len(arr) - 1) : Lt(arr[k], arr[k + 1])

\* first <= v <= last on a non-empty array
InRange(arr, v) ==
    /\ Len(arr) > 0
    /\ Le(arr[1], v)
    /\ Le(v, arr[Len(arr)])

\* C3: with registered strictly ascending positions and a value v inside
\* them, val2lin(v, true) is the index of v when v is a position, and
\* i + (v - P[i]) / (P[i+1] - P[i]), strictly between i and i+1, when v lies
\* between the positions i and i+1.
C3_Val2linIndex ==
    (/\ call.op = "val2lin"
     /\ call.toIndex
     /\ ordinal.positions.def
     /\ StrictlyAscending(P)
     /\ InRange(P, call.val))
    => IF \E k \in 1..Len(P) : P[k] = call.val
       THEN \E k \in 1..Len(P) : P[k] = call.val /\ call.ret = N(k - 1)
       ELSE \E k \in 1..(Len(P) - 1) :
                /\ Lt(P[k], call.val)
                /\ Lt(call.val, P[k + 1])
                /\ call.ret = Add(N(k - 1), Div(Sub(call.val, P[k]),
                                                Sub(P[k + 1], P[k])))
                /\ Lt(N(k - 1), call.ret)
                /\ Lt(call.ret, N(k))

\* val2lin(v, true) has returned a fractional index for a value between two
\* registered positions.
C3_Witness ==
    /\ call.op = "val2lin"
    /\ call.toIndex
    /\ ordinal.positions.def
    /\ StrictlyAscending(P)
    /\ InRange(P, call.val)
    /\ \A k \in 1..Len(P) : P[k] # call.val
    /\ call.ret[2] > 1

\* C4: for a value v inside the visible positions, index2val applied to
\* val2lin(v, true) gives v back.
C4_RoundTrip ==
    (/\ call.op = "index2val"
     /\ Defined(call.of)
     /\ ordinal.positions.def
     /\ InRange(P, call.of))
    => call.ret = call.of

\* The round trip has been made for a value strictly between two positions.
C4_Witness ==
    /\ call.op = "index2val"
    /\ Defined(call.of)
    /\ ordinal.positions.def
    /\ InRange(P, call.of)
    /\ \A k \in 1..Len(P) : P[k] # call.of
    /\ call.index[2] > 1
    /\ call.ret = call.of

\* C5: with n registered positions index2val(x) is P[0] for x < 0, P[n-1]
\* for x > n-1 and the linear interpolation between the two neighbours of x
\* otherwise; with no positions registered it is x.
C5_Index2val ==
    call.op = "index2val"
    => LET x == call.index
           n == Len(P)
       IN  IF ~ordinal.positions.def THEN call.ret = x
           ELSE IF Lt(x, N(0)) THEN call.ret = P[1]
           ELSE IF Gt(x, N(n - 1)) THEN call.ret = P[n]
           ELSE \E k \in 1..n :
                    /\ Le(N(k - 1), x)
                    /\ Lt(x, N(k))
                    /\ call.ret =
                         IF x = N(k - 1) THEN P[k]
                         ELSE Add(P[k], Mul(Sub(x, N(k - 1)),
                                            Sub(P[k + 1], P[k])))

\* index2val has clamped an index beyond the last registered position.
C5_Witness ==
    /\ call.op = "index2val"
    /\ ordinal.positions.def
    /\ Len(P) > 0
    /\ Gt(call.index, N(Len(P) - 1))
    /\ call.ret = P[Len(P)]

\* v lies outside the registered positions.
OutsideVisible(v) ==
    /\ ordinal.positions.def
    /\ ~InRange(P, v)

\* C6: lin2val(x) is x when the extended positions are undefined or empty
\* or the computed index is outside them; val2lin(v, toIndex) is v when no
\* positions are registered, when v is outside the visible positions and the
\* extended positions are undefined or empty, and when v is outside both and
\* toIndex is false.
C6_IdentityFallback ==
    /\ (/\ call.op = "lin2val"
        /\ \/ ~NonEmpty(Ext)
           \/ ~(Ge(call.index, N(0)) /\ Le(call.index, N(Len(Ext.val) - 1))))
       => call.ret = call.val
    /\ (call.op = "val2lin" /\ ~ordinal.positions.def)
       => call.ret = call.val
    /\ (call.op = "val2lin" /\ OutsideVisible(call.val) /\ ~NonEmpty(Ext))
       => call.ret = call.val
    /\ (/\ call.op = "val2lin"
        /\ OutsideVisible(call.val)
        /\ NonEmpty(Ext)
        /\ ~InRange(Ext.val, call.val)
        /\ ~call.toIndex)
       => call.ret = call.val

\* val2lin(v, false) has returned v for a value outside the visible and the
\* extended positions.
C6_Witness ==
    /\ call.op = "val2lin"
    /\ OutsideVisible(call.val)
    /\ NonEmpty(Ext)
    /\ ~InRange(Ext.val, call.val)
    /\ ~call.toIndex
    /\ call.ret = call.val

\* A step that is a call of val2lin, lin2val or index2val.
Translated == call'.op \in {"val2lin", "lin2val", "index2val"}

----------------------------------------------------------------------------
(* Claims about beforeSetTickPositions                                     *)

\* The last operation was a run of beforeSetTickPositions.
Ran == call.op = "beforeSetTickPositions"

\* x is one of the registered positions.
InP(x) == \E k \in 1..Len(P) : P[k] = N(x)

\* C8 as stated (under SpecBuild): after a run of beforeSetTickPositions the
\* registered positions, when defined, are strictly ascending and hold every
\* value of every series that reserves space.
C8_AsStated ==
    (Ran /\ ordinal.positions.def)
    => /\ StrictlyAscending(P)
       /\ \A k \in 1..Len(series) :
              series[k].visible
              => \A j \in 1..Len(series[k].xData) : InP(series[k].xData[j])

\* C9 as stated (under SpecRecompute): a run of beforeSetTickPositions that finds
\* ordinal mode inactive, with no breaks on the axis and forceOrdinal unset,
\* leaves positions, slope and offset undefined.
C9_AsStated ==
    (Ran /\ ~axis.isOrdinal /\ ~axis.hasBreaks /\ ~axis.forceOrdinal)
    => /\ ~ordinal.positions.def
       /\ ~Defined(ordinal.slope)
       /\ ~Defined(ordinal.offset)

\* The extremes of the axis, and the index and the linear value the
\* registered positions, slope and offset give a value inside them.
Min == axis.min

Max == axis.max

IndexOf(v) == val2lin(ordinal, None, v, TRUE)

LinearOf(v) == Add(Mul(ordinal.slope, IndexOf(v)), ordinal.offset)

\* beforeSetTickPositions has registered positions for extremes min < max
\* that lie inside them.
Registered ==
    /\ Ran
    /\ ordinal.positions.def
    /\ Lt(axis.min, axis.max)
    /\ InRange(P, Min)
    /\ InRange(P, Max)

\* C10 as stated (under SpecBuild): the slope and offset map the index of
\* min back to min and the index of max back to max.
C10_AsStated ==
    Registered
    => /\ LinearOf(Min) = Min
       /\ LinearOf(Max) = Max
       /\ val2lin(ordinal, None, Min, FALSE) = Min
       /\ val2lin(ordinal, None, Max, FALSE) = Max

\* C10: the slope and offset map the index of min back to min; they map the
\* index of max back to max when that index is at least 1, and otherwise
\* the slope is (max - min) / (1 - index of min), max index being taken as 1.
C10_SlopeOffset ==
    Registered
    => /\ LinearOf(Min) = Min
       /\ val2lin(ordinal, None, Min, FALSE) = Min
       /\ IF Ge(IndexOf(Max), N(1))
          THEN /\ LinearOf(Max) = Max
               /\ val2lin(ordinal, None, Max, FALSE) = Max
          ELSE /\ ordinal.slope = Div(Sub(Max, Min), Sub(N(1), IndexOf(Min)))
               /\ Add(Mul(ordinal.slope, N(1)), ordinal.offset) = Max

\* Positions are registered for extremes strictly inside them, with a slope
\* other than 1 and min beyond the first position.
C10_Witness ==
    /\ Registered
    /\ Gt(IndexOf(Min), N(0))
    /\ Ge(IndexOf(Max), N(1))
    /\ ordinal.slope # N(1)
    /\ LinearOf(Min) = Min
    /\ LinearOf(Max) = Max

----------------------------------------------------------------------------
(* Claims about the extended position cache, under Spec                    *)

\* The cache of the ordinal object ord holds no extended positions.
NoEntry(ord) ==
    \A k \in Keys : ~(ord.index.def /\ ord.index.entries[k].def)

\* The x values of the series that reserve space.
DataXs ==
    UNION {{N(series[k].xData[j]) : j \in 1..Len(series[k].xData)} :
              k \in {i \in 1..Len(series) : series[i].visible}}

\* The values of an array up to the largest x value of the data.
UpToDataMax(arr) ==
    {arr[j] : j \in {i \in 1..Len(arr) : Le(arr[i], dataMaxOf(series))}}

\* The values of an array beyond the largest x value of the data.
BeyondDataMax(arr) ==
    {arr[j] : j \in {i \in 1..Len(arr) : Gt(arr[i], dataMaxOf(series))}}

\* Every entry of the cache holds, up to dataMax, the x values of the
\* current series data and no other.
CacheCurrent ==
    \A k \in Keys :
        (ordinal.index.def /\ ordinal.index.entries[k].def)
        => UpToDataMax(ordinal.index.entries[k].val) = DataXs

\* A step in which a series fires updatedData.
Updated == series' # series

C12_AsStated ==
    call.op = "getExtendedPositions"
    => /\ call.ret.def
       /\ UpToDataMax(call.ret.val) = DataXs
       /\ (BeyondDataMax(call.ret.val) # {}) <=> call.withOverscroll

----------------------------------------------------------------------------
(* Claims about convertOverscroll, under SpecOverscroll                    *)

Converted == call.op = "convertOverscroll"

\* How the strings of OverscrollStrings read: a number n followed by a
\* percent sign or by px, or neither.
Readings ==
    {[s |-> <<"1", "0", "%">>, form |-> "percent", n |-> N(10)],
     [s |-> <<"5", "0", "%">>, form |-> "percent", n |-> N(50)],
     [s |-> <<"1", ".", "5", "%">>, form |-> "percent", n |-> Norm(3, 2)],
     [s |-> <<"5", "0", "p", "x">>, form |-> "pixels", n |-> N(50)],
     [s |-> <<"5", "p", "x">>, form |-> "pixels", n |-> N(5)],
     [s |-> <<"8", "0", "0", "p", "x">>, form |-> "pixels", n |-> N(800)],
     [s |-> <<"-", "5", "p", "x">>, form |-> "pixels", n |-> N(-5)],
     [s |-> <<"5", "p", "x", "q">>, form |-> "other", n |-> N(5)],
     [s |-> <<"a", "b", "c">>, form |-> "other", n |-> NaN],
     [s |-> <<"1", "0">>, form |-> "other", n |-> N(10)],
     [s |-> <<>>, form |-> "other", n |-> NaN]}

\* The reading of the string convertOverscroll was given.
Reading == CHOOSE t \in Readings : t.s = call.overscroll.s

GivenString == Converted /\ call.overscroll.kind = "string"

\* The range a percentage is taken of: the cached originalOrdinalRange when
\* it is known, dataMax - dataMin otherwise, 0 without data extremes.
RangeOf ==
    IF Defined(call.originalOrdinalRange) THEN call.originalOrdinalRange
    ELSE IF Defined(call.dataMin) /\ Defined(call.dataMax)
    THEN Sub(call.dataMax, call.dataMin)
    ELSE N(0)

\* C16 as stated: a number resolves to itself, a percentage string 'N%' to
\* (N/100) * R, and a string with neither a percent nor a pixel suffix to 0.
C16_AsStated ==
    /\ (Converted /\ call.overscroll.kind = "number")
       => call.ret = N(call.overscroll.v)
    /\ (GivenString /\ Reading.form = "percent")
       => call.ret = Mul(Div(Reading.n, N(100)), RangeOf)
    /\ (GivenString /\ Reading.form = "other")
       => call.ret = N(0)

\* The pixel value of a pixel string after the clamp, and its share of the
\* axis length.
Clamped == MathMin(Reading.n, Mul(call.len, Norm(9, 10)))

Share == Div(Clamped, call.len)

\* C17 as stated: for a pixel string, every pixel value and every axis
\* length, p = clamped / length is at most 0.9 and the result is the
\* number R * p / (1 - p); '50px' with length 500 and range 100 gives
\* 100 * (0.1 / 0.9).
C17_AsStated ==
    /\ (GivenString /\ Reading.form = "pixels")
       => /\ Le(Share, Norm(9, 10))
          /\ IsFinite(call.ret)
          /\ call.ret = Div(Mul(RangeOf, Share), Sub(N(1), Share))
    /\ (/\ GivenString
        /\ call.overscroll.s = <<"5", "0", "p", "x">>
        /\ call.len = N(500)
        /\ RangeOf = N(100))
       => call.ret = Norm(100, 9)

----------------------------------------------------------------------------
(* Claims about the decision of beforeSetTickPositions, under SpecBuild    *)

\* The series whose values take an ordinal position.
Takers ==
    {k \in 1..Len(series) :
        series[k].visible
        /\ (series[k].takeOrdinalPosition \/ axis.hasBreaks)}

\* The merged positions: the values of those series, ascending, each once.
Merged ==
    NumSeq(AscendingSeq(
        UNION {{series[k].xData[j] : j \in 1..Len(series[k].xData)} :
                  k \in Takers}))

\* P[1] - P[0] of a series, NaN below two points.
FirstGap(k) ==
    IF Len(series[k].xData) > 1
    THEN N(series[k].xData[2] - series[k].xData[1])
    ELSE NaN

\* The series after the first that hold more than one point.
Compared == {k \in 2..Len(series) : Len(series[k].xData) > 1}

\* The last of them has another distance between its first two points than
\* the series before it, and some series is boosted.
TrimsExtremes ==
    /\ \E k \in 1..Len(series) : series[k].boosted
    /\ Compared # {}
    /\ LET k == CHOOSE i \in Compared : \A j \in Compared : j <= i
       IN  ~StrictEq(FirstGap(k), FirstGap(k - 1))

\* The positions the decision is made on.
Decided ==
    IF TrimsExtremes
    THEN (IF Len(Merged) < 2 THEN <<>> ELSE SubSeq(Merged, 2, Len(Merged) - 1))
    ELSE Merged

\* The decision as the claim words it, on positions Q.
Irregular(Q) ==
    /\ Len(Q) > 2
    /\ \/ \E i \in 1..(Len(Q) - 1) : Sub(Q[i + 1], Q[i]) # Sub(Q[2], Q[1])
       \/ /\ ~axis.options.keepOrdinalPadding
          /\ \/ Gt(Sub(Q[1], Min), Sub(Q[2], Q[1]))
             \/ Gt(Sub(Max, Q[Len(Q)]), Sub(Q[2], Q[1]))

----------------------------------------------------------------------------
(* Claims about onChartPan, under SpecPan                                  *)

\* The last operation was a pan that took the ordinal branch of the handler.
OrdinalPan ==
    /\ call.op = "pan"
    /\ call.event.panning
    /\ call.event.panningType # "y"
    /\ call.event.touches <= 1
    /\ axis.options.ordinal
    /\ Len(series) > 0

\* dataMax + overscroll
RightEdge == Add(call.dataMax, call.overscroll)

\* The value the handler moves v to: index2val(val2lin(v, true) + movedUnits)
\* on the extended positions.
Target(v) ==
    index2val(call.extended,
              Add(val2lin(extendedAxisOrdinal(call.extended.val), None, v,
                          TRUE),
                  call.movedUnits))

\* The extremes are the ones the axis had before the pan.
ExtremesKept == axis.min = call.min /\ axis.max = call.max

\* C18 as stated: a pan to the left with min <= dataMin, and a pan to the
\* right with max at dataMax + overscroll or beyond, is rejected and leaves
\* the extremes as they were; a pan to the right whose resulting maximum
\* stays at or below dataMax + overscroll is not rejected.
C18_AsStated ==
    OrdinalPan
    => /\ (\/ Le(call.min, call.dataMin) /\ Lt(call.movedUnits, N(0))
           \/ Ge(call.max, RightEdge) /\ Gt(call.movedUnits, N(0)))
          => (call.outcome = "rejected" /\ ExtremesKept)
       /\ (/\ Gt(call.movedUnits, N(0))
           /\ Lt(call.max, RightEdge)
           /\ call.extended.def
           /\ Le(Target(call.max), RightEdge))
          => call.outcome # "rejected"

\* The end of the handler has written dataMax + overscroll to axis.max.
MaxWritten ==
    /\ call.event.panningType = "xy"
    /\ Truthy(call.overscroll)
    /\ axis.max = RightEdge

\* The targets of min and max lie inside the range a pan may set.
TargetsInside ==
    /\ Ge(Target(call.min), MathMin(call.dataMin, call.min))
    /\ Le(Target(call.max), Add(MathMax(call.dataMax, call.max),
                                call.overscroll))

\* A pan on the ordinal branch that found extended positions and was not
\* rejected.
Moved ==
    /\ OrdinalPan
    /\ call.extended.def
    /\ call.outcome # "rejected"

\* C19 as stated: every pan on an ordinal axis with extended positions that
\* is not rejected, for every movedUnits other than 0, gives setExtremes
\* index2val(val2lin(min, true) + movedUnits) and
\* index2val(val2lin(max, true) + movedUnits), taken on the extended
\* positions.
C19_AsStated ==
    (Moved /\ call.movedUnits # N(0))
    => /\ call.outcome = "committed"
       /\ call.newMin = Target(call.min)
       /\ call.newMax = Target(call.max)
       /\ axis.min = call.newMin

\* C19 (amended): a pan on an ordinal axis with extended positions that is
\* not rejected calls setExtremes iff it moved more than one unit either
\* way and both targets lie inside [min(dataMin, min),
\* max(dataMax, max) + overscroll]; it then gives setExtremes the targets
\* index2val(val2lin(min, true) + movedUnits) and
\* index2val(val2lin(max, true) + movedUnits) taken on the extended
\* positions. Every other such pan leaves the extremes as they were, but
\* for axis.max being set to dataMax + overscroll when the panning type
\* holds y and overscroll is set.
C19_Pan ==
    Moved
    => IF Gt(MathAbs(call.movedUnits), N(1)) /\ TargetsInside
       THEN /\ call.outcome = "committed"
            /\ call.newMin = Target(call.min)
            /\ call.newMax = Target(call.max)
            /\ axis.min = call.newMin
            /\ axis.max = call.newMax \/ MaxWritten
       ELSE /\ call.outcome \in {"ignored", "outside"}
            /\ axis.min = call.min
            /\ axis.max = call.max \/ MaxWritten

\* A pan by two units has been committed and has moved min to a value that
\* lies two positions further on.
C19_Witness ==
    /\ Moved
    /\ call.outcome = "committed"
    /\ call.movedUnits = N(2)
    /\ axis.min = Target(call.min)
    /\ axis.min # Add(call.min, N(2))
    /\ Gt(axis.min, call.min)

----------------------------------------------------------------------------
(* getOverscrollPositions on its own                                       *)

\* ordinal.overscrollPointsRange: not set, or the closest distance between
\* two points.
PointRanges == {Undefined, Norm(1, 2), N(1), N(2), N(3)}

\* The overscroll option: none, a number of axis units or a percentage.
PositionOverscrolls ==
    {NoOverscroll, StringOverscroll(<<"5", "0", "%">>)}
        \cup {NumberOverscroll(v) : v \in 0..3}

GetOverscrollPositions ==
    /\ call = Idle
    /\ \E o \in PositionOverscrolls, d \in PointRanges, max \in Values,
          r \in OrdinalRanges :
        call' = [op |-> "getOverscrollPositions", overscroll |-> o,
                 dataMax |-> N(max), overscrollPointsRange |-> d,
                 originalOrdinalRange |-> r,
                 extraRange |->
                     convertOverscroll(
                         [dataMin |-> N(0), dataMax |-> N(max),
                          len |-> N(AxisLen)],
                         [originalOrdinalRange |-> r], o),
                 ret |-> getOverscrollPositions(
                             [dataMin |-> N(0), dataMax |-> N(max),
                              len |-> N(AxisLen),
                              options |-> [overscroll |-> o]],
                             [originalOrdinalRange |-> r,
                              overscrollPointsRange |-> d])]
    /\ UNCHANGED <<series, axis, ordinal>>

NextPositions == GetOverscrollPositions

SpecPositions == InitFind /\ [][NextPositions]_vars

----------------------------------------------------------------------------
(* getTimeTicks on its own                                                 *)

MaxTime == 6

\* The positions handed to getTimeTicks: none, ascending times, two groups
\* of three with a gap of seven between them, or three values that are not
\* numbers.
TickPositions ==
    {None, Some(<<NaN, NaN, NaN>>), Some(NumSeq(<<1, 2, 3, 10, 11, 12>>))}
        \cup {Some(NumSeq(AscendingSeq(S))) : S \in SUBSET (0..MaxTime)}

\* The axes it runs on: with the ordinal option, with neither it nor the
\* breaks option, or with the breaks option only. The minimum of the axis
\* is the min the call is given.
TickAxes ==
    {[ordinal |-> o[1], breaks |-> o[2], tickPixelInterval |-> t,
      transA |-> N(1), min |-> Undefined] :
        o \in {<<TRUE, FALSE>>, <<FALSE, FALSE>>, <<FALSE, TRUE>>},
        t \in {Undefined, N(2)}}

TickIntervals ==
    {[unitRange |-> Hour, count |-> 1], [unitRange |-> Hour, count |-> 2],
     [unitRange |-> Day, count |-> 1]}

GetTimeTicks ==
    /\ call = Idle
    /\ \E ax \in TickAxes, i \in TickIntervals, p \in TickPositions,
          min \in {Undefined, N(0), N(2)},
          max \in {N(3), N(MaxTime), N(2 * MaxTime)},
          d \in {N(0), N(1)}, f \in BOOLEAN :
        call' = [op |-> "getTimeTicks", axis |-> [ax EXCEPT !.min = min],
                 normalizedInterval |-> i, min |-> min, max |-> max,
                 positions |-> p, closestDistance |-> d,
                 findHigherRanks |-> f,
                 ret |-> getTimeTicks([ax EXCEPT !.min = min],
                             [normalizedInterval |-> i, min |-> min,
                              max |-> max, positions |-> p,
                              closestDistance |-> d, findHigherRanks |-> f])]
    /\ UNCHANGED <<series, axis, ordinal>>

NextTicks == GetTimeTicks

SpecTicks == InitFind /\ [][NextTicks]_vars

----------------------------------------------------------------------------
(* Claims about getTimeTicks                                               *)

Ticked == call.op = "getTimeTicks"

\* What time.getTimeTicks gives for the interval and the extremes of the
\* call.
Plain == timeGetTimeTicks(call.normalizedInterval, call.min, call.max)

\* The axis has neither the ordinal nor the breaks option, or the positions
\* are missing or fewer than three, or min is undefined.
PlainCase ==
    \/ ~call.axis.ordinal /\ ~call.axis.breaks
    \/ ~call.positions.def
    \/ Len(call.positions.val) < 3
    \/ call.min = Undefined

\* C13: in the plain case getTimeTicks makes one call of time.getTimeTicks,
\* with the interval, min and max it was given, and returns its result,
\* ticks and info, without signalling an error.
C13_Delegates ==
    Ticked /\ PlainCase =>
        /\ call.ret.calls = <<[min |-> call.min, max |-> call.max]>>
        /\ call.ret.ticks = Plain.ticks
        /\ call.ret.info = Plain.info
        /\ call.ret.error = 0

\* An ordinal axis with two positions far apart around the extremes: the
\* call is delegated and gives the ticks between the extremes.
C13_Witness ==
    /\ Ticked /\ PlainCase
    /\ call.axis.ordinal
    /\ call.positions = Some(<<N(0), N(MaxTime)>>)
    /\ call.min = N(2) /\ call.max = N(3)
    /\ call.closestDistance = N(1)
    /\ call.normalizedInterval = [unitRange |-> Hour, count |-> 1]
    /\ call.ret.ticks = <<N(2), N(3)>>

\* The positions are at least three and no two neighbours are further apart
\* than five times the closest distance.
EvenlySpaced ==
    /\ call.positions.def
    /\ Len(call.positions.val) >= 3
    /\ \A k \in 1..(Len(call.positions.val) - 1) :
           Le(Sub(call.positions.val[k + 1], call.positions.val[k]),
              Mul(call.closestDistance, N(5)))

OrdinalEven == Ticked /\ call.axis.ordinal /\ ~PlainCase /\ EvenlySpaced

\* C14 as stated: on an ordinal axis with evenly spaced positions the ticks
\* are those of time.getTimeTicks for the same interval, min and max.
C14_AsStated == OrdinalEven => call.ret.ticks = Plain.ticks

\* The index of the position the one segment ends at: the first one whose
\* predecessor lies above max, else the last.
SegmentEnd ==
    LET beyond == {k \in 2..Len(call.positions.val) :
                      Gt(call.positions.val[k - 1], call.max)}
    IN  IF beyond = {} THEN Len(call.positions.val)
        ELSE CHOOSE k \in beyond : \A j \in beyond : k <= j

\* The index of the position it starts at: the last one below min up to its
\* end, else the first.
SegmentStart ==
    LET below == {k \in 1..SegmentEnd :
                     Lt(call.positions.val[k], call.min)}
    IN  IF below = {} THEN 1
        ELSE CHOOSE k \in below : \A j \in below : j <= k

\* What time.getTimeTicks gives for the interval and the two ends of the
\* segment.
SegmentTicks ==
    timeGetTimeTicks(call.normalizedInterval,
                     call.positions.val[SegmentStart],
                     call.positions.val[SegmentEnd]).ticks

Thins == call.findHigherRanks /\ call.axis.tickPixelInterval # Undefined

\* C14: on an ordinal axis with evenly spaced positions time.getTimeTicks is
\* called once, from the last position below min (else the first) to the
\* position after the first one above max (else the last); the ticks are
\* the ones it gives when no thinning is asked for, and some of them, in
\* their order, otherwise.
C14_OneSegment ==
    OrdinalEven =>
        /\ call.ret.calls = <<[min |-> call.positions.val[SegmentStart],
                               max |-> call.positions.val[SegmentEnd]]>>
        /\ ~Thins => call.ret.ticks = SegmentTicks
        /\ \A k \in 1..Len(call.ret.ticks) :
               \E j \in 1..Len(SegmentTicks) :
                   SegmentTicks[j] = call.ret.ticks[k]
        /\ \A k \in 1..(Len(call.ret.ticks) - 1) :
               Lt(call.ret.ticks[k], call.ret.ticks[k + 1])

\* Positions 0..6 and extremes 2 and 3: the ticks run from 1 to 5, the
\* plain ones from 2 to 3.
C14_Witness ==
    /\ OrdinalEven
    /\ ~Thins
    /\ call.min = N(2) /\ call.max = N(3)
    /\ Len(call.positions.val) = MaxTime + 1
    /\ call.normalizedInterval = [unitRange |-> Hour, count |-> 1]
    /\ call.ret.ticks = <<N(1), N(2), N(3), N(4), N(5)>>
    /\ Plain.ticks = <<N(2), N(3)>>

\* C15: when getTimeTicks ends without having called time.getTimeTicks for
\* any segment it signals error 12 and returns an empty tick array with no
\* info; when it has called it, it signals no error.
C15_Error12 ==
    Ticked =>
        /\ call.ret.calls = <<>> =>
               /\ call.ret.error = 12
               /\ call.ret.ticks = <<>>
               /\ ~call.ret.info.def
        /\ call.ret.calls # <<>> => call.ret.error = 0 /\ call.ret.info.def

\* Three positions that are not numbers on an ordinal axis: no segment is
\* given ticks.
C15_Witness ==
    /\ Ticked /\ ~PlainCase
    /\ call.positions = Some(<<NaN, NaN, NaN>>)
    /\ call.ret.calls = <<>>
    /\ call.ret.error = 12

----------------------------------------------------------------------------
(* Claims about the segments of getTimeTicks                               *)

\* The call went through the loop over the positions.
Scanned == Ticked /\ ~PlainCase

\* The k-th position of the call.
PositionAt(k) == call.positions.val[k]

\* The position the scan stops at: the first one whose predecessor lies
\* above max, else the last.
ScanStop ==
    LET beyond == {k \in 2..Len(call.positions.val) :
                      Gt(PositionAt(k - 1), call.max)}
    IN  IF beyond = {} THEN Len(call.positions.val)
        ELSE CHOOSE k \in beyond : \A j \in beyond : k <= j

\* The positions a segment ends at: the last one, the ones followed by a gap
\* of more than five times the closest distance, and the one the scan stops
\* at.
SegmentEnds ==
    {e \in 1..ScanStop :
        \/ e = Len(call.positions.val)
        \/ e = ScanStop
        \/ Gt(Sub(PositionAt(e + 1), PositionAt(e)),
              Mul(call.closestDistance, N(5)))}

\* The position a segment that ends at e begins at.
SegmentFirst(e) ==
    LET before == {d \in SegmentEnds : d < e}
    IN  IF before = {} THEN 1
        ELSE (CHOOSE d \in before : \A c \in before : c <= d) + 1

\* The last position of that segment below min, else its first.
SegmentFrom(e) ==
    LET below == {k \in SegmentFirst(e)..e : Lt(PositionAt(k), call.min)}
    IN  IF below = {} THEN SegmentFirst(e)
        ELSE CHOOSE k \in below : \A j \in below : j <= k

\* The calls of time.getTimeTicks for the segments that end in ends, one per
\* segment from its first to its last position.
RECURSIVE CallsPerSegment(_)
CallsPerSegment(ends) ==
    IF ends = {} THEN <<>>
    ELSE LET e == CHOOSE x \in ends : \A y \in ends : x <= y
         IN  <<[min |-> PositionAt(SegmentFirst(e)), max |-> PositionAt(e)]>>
                 \o CallsPerSegment(ends \ {e})

\* C22 as stated: time.getTimeTicks is called once per segment, with the
\* first and the last position of the segment, and segmentStarts has one
\* entry per segment.
C22_AsStated ==
    Scanned
    => /\ call.ret.calls = CallsPerSegment(SegmentEnds)
       /\ call.ret.info.def
       /\ Len(call.ret.info.segmentStarts.val) = Cardinality(SegmentEnds)

\* The last of the ticks time.getTimeTicks gives for a call, when it lies
\* above last; last otherwise.
LastTickOf(c, last) ==
    LET ticks == timeGetTimeTicks(call.normalizedInterval, c.min, c.max).ticks
    IN  IF Len(ticks) > 0 /\ Gt(Last(ticks), last) THEN Last(ticks) ELSE last

\* The calls for the segments that end in ends, last being the last tick
\* accepted before them: a segment whose last position is not above it is
\* given no call, the others one call from SegmentFrom to their end.
RECURSIVE CallsAbove(_, _)
CallsAbove(ends, last) ==
    IF ends = {} THEN <<>>
    ELSE LET e == CHOOSE x \in ends : \A y \in ends : x <= y
             c == [min |-> PositionAt(SegmentFrom(e)), max |-> PositionAt(e)]
         IN  IF Gt(PositionAt(e), last)
             THEN <<c>> \o CallsAbove(ends \ {e}, LastTickOf(c, last))
             ELSE CallsAbove(ends \ {e}, last)

\* The ticks the k-th call added to the result.
TicksOfCall(k) ==
    LET starts == call.ret.info.segmentStarts.val
    IN  SubSeq(call.ret.assembled, starts[k] + 1,
               IF k < Len(starts) THEN starts[k + 1]
               ELSE Len(call.ret.assembled))

\* The ticks time.getTimeTicks gives for the k-th call that lie above the
\* ticks added before it.
NewTicksOfCall(k) ==
    LET ticks == timeGetTimeTicks(call.normalizedInterval,
                                  call.ret.calls[k].min,
                                  call.ret.calls[k].max).ticks
        starts == call.ret.info.segmentStarts.val
    IN  SelectSeq(ticks,
                  LAMBDA t : starts[k] = 0
                             \/ Gt(t, call.ret.assembled[starts[k]]))

\* C22: the scan cuts the positions into segments at the last position, at
\* every gap of more than five times the closest distance and at the
\* position after the first one above max, where it stops. A segment whose
\* last position is not above the last tick accepted so far is given no
\* call of time.getTimeTicks; every other one is given one call, from its
\* last position below min (else its first position) to its last
\* position. segmentStarts has one entry per call, the offset in the result
\* of the first tick that call added.
C22_Segments ==
    Scanned
    => /\ call.ret.calls = CallsAbove(SegmentEnds, N(-NumberMaxValue))
       /\ call.ret.info.def <=> call.ret.calls # <<>>
       /\ call.ret.info.def
          => /\ Len(call.ret.info.segmentStarts.val) = Len(call.ret.calls)
             /\ \A k \in 1..Len(call.ret.calls) :
                    TicksOfCall(k) = NewTicksOfCall(k)

\* Positions 1, 2, 3, 10, 11, 12 with closest distance 1 and extremes around
\* them: two segments, positions 1 to 3 and 10 to 12, each with one call,
\* and the ticks of the second start at offset 3.
C22_Witness ==
    /\ Scanned
    /\ call.positions.val = NumSeq(<<1, 2, 3, 10, 11, 12>>)
    /\ call.closestDistance = N(1)
    /\ call.normalizedInterval = [unitRange |-> Hour, count |-> 1]
    /\ SegmentEnds = {3, 6}
    /\ call.ret.calls = <<[min |-> N(1), max |-> N(3)],
                          [min |-> N(10), max |-> N(12)]>>
    /\ call.ret.info.segmentStarts.val = <<0, 3>>
    /\ call.ret.assembled = NumSeq(<<1, 2, 3, 10, 11, 12>>)


\* C23: the ticks getTimeTicks has assembled from the segments, before the
\* thinning, are strictly ascending: no tick is repeated and none lies at
\* or below one before it, also when the calls for two segments cover the
\* same ticks.
C23_Ascending ==
    Scanned
    => \A k \in 1..(Len(call.ret.assembled) - 1) :
           Lt(call.ret.assembled[k], call.ret.assembled[k + 1])

\* Three segments of one position each, 0, 1 and 2, with ticks every two
\* hours: the call for the second gives 0 again, which is dropped, and 2.
C23_Witness ==
    /\ Scanned
    /\ call.positions.val = NumSeq(<<0, 1, 2>>)
    /\ call.closestDistance = N(0)
    /\ call.normalizedInterval = [unitRange |-> Hour, count |-> 2]
    /\ Len(call.ret.calls) = 2
    /\ timeGetTimeTicks(call.normalizedInterval, call.ret.calls[2].min,
                        call.ret.calls[2].max).ticks = <<N(0), N(2)>>
    /\ call.ret.assembled = <<N(0), N(2)>>


----------------------------------------------------------------------------
(* Claims about the higher ranks and the thinning of getTimeTicks          *)

\* The call looked for higher ranks: findHigherRanks is set, the unit of the
\* interval is at most an hour and some segment was given ticks.
Ranked ==
    /\ Scanned
    /\ call.findHigherRanks
    /\ call.normalizedInterval.unitRange <= Hour
    /\ call.ret.info.def

\* The assembled ticks, from the second to the last, that fall on another
\* day than the tick before them.
DayChanges ==
    {call.ret.assembled[k] :
        k \in {j \in 2..Len(call.ret.assembled) :
                  dayOf(call.ret.assembled[j]) #
                  dayOf(call.ret.assembled[j - 1])}}

\* C24 as stated: the ticks marked as higher rank are all the ticks that
\* fall on another day than the tick before them, the last tick included,
\* and the first tick when there is one of those.
C24_AsStated ==
    Ranked
    => call.ret.info.higherRanks =
           IF DayChanges = {} THEN {}
           ELSE DayChanges \cup {call.ret.assembled[1]}


\* The call ran the thinning.
Thinning == Scanned /\ Thins

\* The pixel position of a tick.
PixelOf(t) == translate(call.axis, t)

\* The median of the pixel distances between the assembled ticks, null when
\* it was discarded.
Median == medianOf(call.axis, translatedOf(call.axis, call.ret.assembled))

\* A pixel distance below which a tick is dropped: below 0.8 times the tick
\* pixel interval and, unless the median was discarded, below 0.8 times the
\* median.
TooClose(distance) ==
    /\ Lt(distance, Mul(call.axis.tickPixelInterval, Norm(4, 5)))
    /\ Median.null \/ Lt(distance, Mul(Median.val, Norm(4, 5)))

\* C25 as stated, its last sentence: after the thinning no two neighbours
\* among the retained ticks up to max are closer than the distance below
\* which a tick is dropped.
C25_AsStated ==
    Thinning
    => \A k \in 1..(Len(call.ret.ticks) - 1) :
           Le(call.ret.ticks[k + 1], call.max)
           => ~TooClose(Sub(PixelOf(call.ret.ticks[k + 1]),
                            PixelOf(call.ret.ticks[k])))


----------------------------------------------------------------------------
(* Claims about getOverscrollPositions                                     *)

Positioned == call.op = "getOverscrollPositions"

\* dataMax + k * d, d being the cached distance between two points.
Step(k) == Add(call.dataMax, Mul(N(k), call.overscrollPointsRange))

\* The numbers k from 1 on that need looking at to find where the positions
\* end.
Steps == 1..(2 * MaxVal + 2)

\* The values dataMax + d, ..., dataMax + n * d.
StepsTo(n) == [k \in 1..n |-> Step(k)]

LoopsForever == overscrollLoopDiverges(Ax, ordinal)

\* C28 as stated: whenever overscrollPointsRange is defined it is strictly
\* positive, and no call of getOverscrollPositions loops for ever.
C28_AsStated ==
    /\ Defined(ordinal.overscrollPointsRange)
       => Gt(ordinal.overscrollPointsRange, N(0))
    /\ ~LoopsForever


----------------------------------------------------------------------------
(* Claims about originalOrdinalRange                                       *)

\* C29 as stated: whenever originalOrdinalRange is set it is not negative,
\* and once set it keeps its value until a series fires updatedData.
C29_AsStated ==
    /\ [](Defined(ordinal.originalOrdinalRange)
          => Ge(ordinal.originalOrdinalRange, N(0)))
    /\ [][Defined(ordinal.originalOrdinalRange) /\ ~Updated
          => ordinal'.originalOrdinalRange = ordinal.originalOrdinalRange]_vars


----------------------------------------------------------------------------
(* Claim about val2lin across its three regions, under Spec               *)

\* The registered positions are a run of neighbours of the non-empty
\* extended positions the cache holds.
Contiguous ==
    /\ ordinal.positions.def
    /\ Len(P) > 0
    /\ NonEmpty(Ext)
    /\ \E s \in 0..(Len(Ext.val) - Len(P)) :
           \A k \in 1..Len(P) : Ext.val[s + k] = P[k]

\* val2lin(v, true) on the registered and the cached extended positions.
Val2linIndex(v) == val2lin(ordinal, Ext, v, TRUE)

\* val2lin(v, true) has returned on contiguous positions with a positive
\* slope.
OnContiguous ==
    /\ call.op = "val2lin"
    /\ call.toIndex
    /\ Contiguous
    /\ Gt(ordinal.slope, N(0))

\* val2lin(v, true) is below val2lin(w, true) for every w above v.
Increasing ==
    \A w \in AxisValues : Lt(call.val, w) => Lt(call.ret, Val2linIndex(w))

\* C30 as stated: when the visible positions are a contiguous sub-sequence
\* of non-empty extended positions and the slope is positive, val2lin(v,
\* true) is strictly increasing in v and free of jumps across the visible,
\* the extended and the extrapolated regions: the index of a value w above
\* the last extended position is the index of that position plus
\* (w - last) / slope.
C30_AsStated ==
    OnContiguous
    => /\ Increasing
       /\ call.val = Last(Ext.val)
          => \A w \in AxisValues :
                 Lt(call.val, w)
                 => Val2linIndex(w) = Add(call.ret,
                                     Div(Sub(w, call.val), ordinal.slope))


----------------------------------------------------------------------------
(* Claim about the lifetime of the cache, under Spec                       *)

\* getExtendedPositions has returned.
Extended == call.op = "getExtendedPositions"

\* Whether the next getExtendedPositions(withOverscroll), made before any
\* updatedData, runs the position set builder again.
BuildsAgain(withOverscroll) ==
    getExtendedPositions(Ax, series, ordinal, withOverscroll).built

\* C21 as stated: the cache is filled at most once per key: after a
\* getExtendedPositions call, every later call made before a series fires
\* updatedData returns the stored sequence without running the position set
\* builder again, for every dataset, evenly spaced data included.
C21_AsStated ==
    Extended
    => \A withOverscroll \in BOOLEAN :
           /\ ~BuildsAgain(withOverscroll)
           /\ getExtendedPositions(Ax, series, ordinal, withOverscroll).ret
                  = call.ret


----------------------------------------------------------------------------
(* Claim about the extremes a pan leaves, under SpecPan                    *)

\* dataMin <= min <= max <= dataMax + overscroll on the axis a with the
\* data extremes of d and the converted overscroll.
InsideData(a, d, overscroll) ==
    /\ Defined(d.dataMin)
    /\ Le(d.dataMin, a.min)
    /\ Le(a.min, a.max)
    /\ Le(a.max, Add(d.dataMax, overscroll))

\* dataMin <= min and max <= dataMax + overscroll
PanSafe(a, d, overscroll) ==
    /\ Le(d.dataMin, a.min)
    /\ Le(a.max, Add(d.dataMax, overscroll))

\* The step is a run of the pan handler.
PanStep == call'.op = "pan"

============================================================================
